---- MODULE Spec2Model ----
(***************************************************************************)
(* Model of the secure RDMA connection broker (linjiw/rdma-multi-client).  *)
(*                                                                         *)
(* One connection attempt is identified by a connection id c in Conn.  It  *)
(* has a client side (secure_rdma_client.c) and, once admitted, a server   *)
(* side record (struct client_connection of secure_rdma_server_100.c)      *)
(* driven by its own handler thread.  The two sides talk over a TLS byte   *)
(* stream (tls_utils.c) and, after bring-up, over a reliable-connected     *)
(* queue pair.                                                             *)
(*                                                                         *)
(* 32-bit quantities are naturals below 2^31 (TLC's integer width); their  *)
(* wire form is a sequence of octets.                                      *)
(***************************************************************************)
EXTENDS Integers, Sequences, FiniteSets, TLC

\* ---------------------------------------------------------------- bounds

\* Size of the slot table.  The source sets MAX_CLIENTS to 100
\* (secure_rdma_server_100.c:21); the model scales it down.
MAX_CLIENTS == 2

\* Number of data messages a client sends on one connection.
MaxMsgs == 1

\* Largest number of unread TLS messages one direction of the stream buffers
\* before SSL_write blocks (0: the stream buffers nothing).
ChanCap == 1

\* Connection attempts that may be in progress at once: one more than the
\* table holds, so that the table can be full when a further client arrives.
NumConns == MAX_CLIENTS + 1

Conn == 1..NumConns
Slots == 1..MAX_CLIENTS
NULL == 0

\* ---------------------------------------------------- program constants

INITIAL_RECVS == 5
MAX_RECV_WR == 10

\* "char input[256]" of run_interactive_client and "char response[256]" of
\* handle_client_rdma.
INPUT_SIZE == 256

\* MAX_CLIENTS_DEFAULT of secure_rdma_server_scalable.c.
MAX_CLIENTS_DEFAULT == 1000
RESPONSE_SIZE == 256

\* ------------------------------------------------------------ the codec

\* htonl: the in-memory image of the converted word, most significant
\* octet first.
htonl(v) ==
    << (v \div 16777216) % 256, (v \div 65536) % 256, (v \div 256) % 256, v % 256 >>

\* A decoding that reads the octets least significant first, as a host
\* that skipped the conversion would.
ntohl_le(b) == ((b[4] * 256 + b[3]) * 256 + b[2]) * 256 + b[1]

\* ntohl of a 4-octet memory image.
ntohl(b) == ((b[1] * 256 + b[2]) * 256 + b[3]) * 256 + b[4]

\* An htons that leaves the octets in little-endian host order.
htons_le(v) == << v % 256, (v \div 256) % 256 >>

htons(v) == << (v \div 256) % 256, v % 256 >>

ntohs(b) == b[1] * 256 + b[2]

\* A 64-bit address is a pair <<high word, low word>>.
htobe64(a) == htonl(a[1]) \o htonl(a[2])

be64toh(b) == << ntohl(SubSeq(b, 1, 4)), ntohl(SubSeq(b, 5, 8)) >>

\* The 32-bit word RAND_bytes leaves in memory on a little-endian host, as
\* its four octets d[1] (least significant) .. d[4]; generate_secure_psn
\* masks it to 24 bits and forces bit 0.
generate_secure_psn_nomask(d) == d[1] + 256 * d[2] + 65536 * d[3]

generate_secure_psn(d) ==
    LET low24 == d[1] + 256 * d[2] + 65536 * d[3]
    IN  IF low24 % 2 = 1 THEN low24 ELSE low24 + 1

\* generate_secure_psn, lines 258-269: where the word that is masked comes
\* from.  e is what the sources do: RAND_bytes succeeds, /dev/urandom opens,
\* the count read() returns (unchecked).  After a short or failed read some
\* or all of the word is what the stack held ("unset").
EntropySource(e) ==
    IF e[1] THEN "RAND_bytes"
    ELSE IF e[2] THEN (IF e[3] = 4 THEN "urandom" ELSE "unset")
    ELSE "rand"

\* Random words the model draws.
Draws == { <<0, 0, 0, 1>>, <<18, 239, 205, 171>> }

\* Random words at the edges of the 32-bit range: all bits clear, all set,
\* only bit 0, only bit 24, only bit 31, only the top octet, all of the low
\* 24 but bit 0, and all but bit 0.
EdgeDraws ==
    { <<0, 0, 0, 0>>, <<255, 255, 255, 255>>, <<1, 0, 0, 0>>, <<0, 0, 0, 1>>,
      <<0, 0, 0, 128>>, <<0, 0, 0, 255>>, <<254, 255, 255, 0>>,
      <<254, 255, 255, 255>> }

\* Contents an uninitialised padding octet may have.
PadOctets == {0, 255}

\* struct rdma_conn_params as it lies in memory: qp_num (4), lid (2),
\* gid (16), two padding octets, psn (4), rkey (4), remote_addr (8).
EncodeParams(p, pad) ==
    htonl(p.qp_num) \o htons(p.lid) \o p.gid \o pad
        \o htonl(p.psn) \o htonl(p.rkey) \o htobe64(p.remote_addr)

DecodeParams(b) ==
    [ qp_num      |-> ntohl(SubSeq(b, 1, 4)),
      lid         |-> ntohs(SubSeq(b, 5, 6)),
      gid         |-> SubSeq(b, 7, 22),
      psn         |-> ntohl(SubSeq(b, 25, 28)),
      rkey        |-> ntohl(SubSeq(b, 29, 32)),
      remote_addr |-> be64toh(SubSeq(b, 33, 40)) ]

\* A 32-bit word as it lies in the memory of a little-endian host.
HostWord(v) ==
    << v % 256, (v \div 256) % 256, (v \div 65536) % 256, (v \div 16777216) % 256 >>

\* rdma_perf_client.c, line 265: SSL_write of the struct as it lies in
\* memory, no field converted.
RawParams(p, pad) ==
    HostWord(p.qp_num) \o htons_le(p.lid) \o p.gid \o pad
        \o HostWord(p.psn) \o HostWord(p.rkey)
        \o HostWord(p.remote_addr[2]) \o HostWord(p.remote_addr[1])

\* rdma_perf_client.c, line 271: SSL_read into the struct, no field
\* converted; the fields are what a little-endian host finds there.  The
\* address, which this client never uses, is kept as its eight octets.
RawDecode(b) ==
    [ qp_num      |-> ntohl_le(SubSeq(b, 1, 4)),
      lid         |-> b[5] + 256 * b[6],
      gid         |-> SubSeq(b, 7, 22),
      psn         |-> ntohl_le(SubSeq(b, 25, 28)),
      rkey        |-> ntohl_le(SubSeq(b, 29, 32)),
      remote_addr |-> SubSeq(b, 33, 40) ]

SizeofParams == Len(EncodeParams(
    [qp_num |-> 0, lid |-> 0, gid |-> [i \in 1..16 |-> 0], psn |-> 0,
     rkey |-> 0, remote_addr |-> <<0, 0>>], <<0, 0>>))

SizeofPsn == Len(htonl(0))

NoParams ==
    [qp_num |-> 0, lid |-> 0, gid |-> [i \in 1..16 |-> 0], psn |-> 0,
     rkey |-> 0, remote_addr |-> <<0, 0>>]

\* What the device reports for each endpoint.  side is "c" or "s".
QpNum(side, c) == IF side = "s" THEN 16 + c ELSE 32 + c

PortLid(side) == IF side = "s" THEN 1 ELSE 2

PortGid(side, c) ==
    [i \in 1..16 |-> IF i = 1 THEN 254 ELSE IF i = 2 THEN 128
                     ELSE IF i = 15 THEN (IF side = "s" THEN 1 ELSE 2)
                     ELSE IF i = 16 THEN c ELSE 0]

MrRkey(side, c) == (IF side = "s" THEN 4096 ELSE 8192) + c

BufAddr(side, c) == << 32767, (IF side = "s" THEN 65536 ELSE 131072) * c >>

\* ------------------------------------------------------------ the state

VARIABLES
    cfg,          \* the environment of a run (see Config)
    running,      \* server->running
    crashed,      \* the server process has been killed by a fault
    clients,      \* server->clients[]: slot -> connection record or NULL
    num_clients,  \* server->num_clients
    lpc,          \* where the TLS listener thread is
    lconn,        \* the record the listener is about to start a handler for
    cl,           \* client side of each connection
    sv,           \* server side record of each connection
    c2s,          \* TLS messages written by the client, not yet read
    s2c,          \* TLS messages written by the server, not yet read
    ctls,         \* client's TLS endpoint: "none", "open", "closed"
    stls,         \* server's TLS endpoint: "none", "open", "closed"
    leaked,       \* kinds of server objects lost without being released
    mpc,          \* where the server's main thread is
    shared,       \* the process-wide resources the server holds
    sc            \* the scalable server (secure_rdma_server_scalable.c)

vars == << cfg, running, crashed, clients, num_clients, lpc, lconn,
           cl, sv, c2s, s2c, ctls, stls, leaked, mpc, shared, sc >>

cfgVars == << cfg >>
procVars == << running, crashed, leaked, mpc, shared, sc >>
tableVars == << clients, num_clients, lpc, lconn >>

\* A queue pair as one side sees it.
NoQp == [state |-> "none", rq_psn |-> 0, sq_psn |-> 0, dest_qp_num |-> 0]

\* What the last call of send_message (or rdma_write_to_server) on a
\* record did: whether ibv_post_send took the work request, what
\* ibv_poll_cq returned (0: not called), the wc.status that was tested, and
\* the value returned.
NoSend == [posted |-> FALSE, polled |-> 0, status |-> "none", ret |-> 0]

\* calloc'ed struct client_context: nothing connected yet.  swr is the queue
\* of posted sends that have not completed, rx the messages received (and
\* tx, on the server, the replies posted), oldest first.
NewClient ==
    [ pc |-> "idle", local_psn |-> 0, remote_psn |-> 0, qp |-> NoQp,
      res |-> "none", remote_params |-> NoParams,
      posted |-> 0, swr |-> <<>>, send_cq |-> <<>>, recv_cq |-> <<>>,
      recv_buffer |-> <<>>, sent |-> 0, log |-> <<>>,
      send |-> NoSend, rx |-> <<>> ]

\* A server record that does not exist (never allocated, or freed).
NoServer ==
    [ pc |-> "none", client_id |-> 0, active |-> 0, local_psn |-> 0,
      remote_psn |-> 0, ctx |-> "null", pd |-> "null", send_cq_h |-> "null",
      recv_cq_h |-> "null", qp |-> NoQp, send_mr |-> "null",
      recv_mr |-> "null", send_buffer |-> "null", recv_buffer_h |-> "null",
      remote_params |-> NoParams, posted |-> 0, swr |-> <<>>,
      send_cq |-> <<>>, recv_cq |-> <<>>, recv_buffer |-> <<>>,
      rc |-> 0, wc |-> "none", log |-> <<>>,
      send |-> NoSend, rx |-> <<>>, tx |-> <<>>, nread |-> 0,
      psn_src |-> "none" ]

\* The environment of a run, fixed at start:
\*   variant  which server source runs: "server_100" (secure_rdma_server_100.c)
\*            or "server" (secure_rdma_server.c);
\*   cap      unread messages the TLS stream buffers per direction;
\*   peers    the connection ids clients use;
\*   entropy  the random words generate_secure_psn may draw;
\*   pads     the contents uninitialised padding octets may have;
\*   msgs     data messages the client of each connection sends;
\*   faulty   the connections on which calls into the system (verbs,
\*            allocation, thread creation, TLS handshake) may fail and whose
\*            client may be killed;
\*   stop     whether an interrupt or terminate signal may arrive;
\*   foreign  the connections whose peer is not this repository's client
\*            and writes four octets of its own choice as its PSN, and
\*            puts the key and address of its own choice into a remote
\*            write (none, but in ForeignPeer and CrossWriter);
\*   rng      what the entropy sources may do in generate_secure_psn, as
\*            triples: RAND_bytes succeeds, /dev/urandom opens, the octets
\*            read() returns (all succeed, but in WeakEntropy);
\*   perf     the connections whose client is run_rdma_client_test of
\*            rdma_perf_client.c (none, but in PerfClient).
Config(variants, caps, peers, entropy, pads, msgs, faulty, stops) ==
    [ variant : variants, cap : caps, peers : {peers}, entropy : {entropy},
      pads : {pads}, msgs : {msgs}, faulty : {faulty}, stop : stops,
      foreign : {{}}, rng : {{ <<TRUE, TRUE, 4>> }}, perf : {{}} ]

\* Results a call that can fail may have, on connection c.
Oks(c) == IF c \in cfg.faulty THEN BOOLEAN ELSE {TRUE}

\* ------------------------------------------------- the scalable server
\* secure_rdma_server_scalable.c

\* New-connection events one epoll_wait may return.
MaxBatch == 2

\* New-connection events the scalable server handles in one run.
MaxAttempts == 3

\* init_server, line 376: buffer_pool_size = max_clients * 2.
NumChunks == MAX_CLIENTS * 2

ChunkIds == 0..(NumChunks - 1)

SlotIds == 0..(MAX_CLIENTS - 1)

\* create_memory_pool: every chunk id on the free list.
create_memory_pool(n) ==
    [ free_list |-> [i \in 0..(n - 1) |-> i], free_count |-> n ]

\* A pool_alloc that reads the top of the free list and leaves it there.
pool_alloc_peek(pool) ==
    IF pool.free_count = 0
    THEN [ pool |-> pool, id |-> -1 ]
    ELSE [ pool |-> pool, id |-> pool.free_list[pool.free_count - 1] ]

\* pool_alloc: the pool after the call and the chunk id handed out, -1 when
\* the call returns NULL.
pool_alloc(pool) ==
    IF pool.free_count = 0
    THEN [ pool |-> pool, id |-> -1 ]
    ELSE [ pool |-> [pool EXCEPT !.free_count = @ - 1],
           id   |-> pool.free_list[pool.free_count - 1] ]

\* A pool_free that does not put the chunk back.
pool_free_lost(pool, id) == pool

\* pool_free: the pool after the call.  The store goes to
\* free_list[free_count]; a store beyond the array is not taken.
pool_free(pool, id) ==
    [ free_list  |-> [i \in DOMAIN pool.free_list |->
                        IF i = pool.free_count THEN id ELSE pool.free_list[i]],
      free_count |-> pool.free_count + 1 ]

\* A slot of the client array that holds no record.
NullClient ==
    [ rec |-> FALSE, client_id |-> 0, state |-> "STATE_INIT", active |-> 0,
      send_buffer |-> -1, buffer_id |-> 0, qp |-> "null" ]

\* A calloc'ed or memset record.
ZeroClient == [NullClient EXCEPT !.rec = TRUE]

\* The value of a decimal digit character, -1 for any other character.
DigitVal(ch) ==
    CASE ch = "0" -> 0 [] ch = "1" -> 1 [] ch = "2" -> 2 [] ch = "3" -> 3
      [] ch = "4" -> 4 [] ch = "5" -> 5 [] ch = "6" -> 6 [] ch = "7" -> 7
      [] ch = "8" -> 8 [] ch = "9" -> 9 [] OTHER -> -1

\* The number made of the leading digits of text, continuing from acc.
RECURSIVE Digits10(_, _)
Digits10(text, acc) ==
    IF text = <<>> \/ DigitVal(Head(text)) < 0 THEN acc
    ELSE Digits10(Tail(text), acc * 10 + DigitVal(Head(text)))

\* atoi: an optional sign, then the leading digits; 0 when there are none.
atoi(text) ==
    IF text # <<>> /\ Head(text) = "-" THEN 0 - Digits10(Tail(text), 0)
    ELSE IF text # <<>> /\ Head(text) = "+" THEN Digits10(Tail(text), 0)
    ELSE Digits10(text, 0)

\* The decimal text of n >= 0.
RECURSIVE Decimal(_)
Decimal(n) ==
    LET d == <<"0", "1", "2", "3", "4", "5", "6", "7", "8", "9">>[(n % 10) + 1]
    IN  IF n < 10 THEN <<d>> ELSE Append(Decimal(n \div 10), d)

\* What getenv("MAX_CLIENTS") may return: NULL, or the text of the
\* variable: the table size of the model, the default, zero, a negative
\* number, text that is no number, the empty text, and numbers above the
\* limit of the design.
EnvValues ==
    { [set |-> FALSE, text |-> <<>>] }
    \cup { [set |-> TRUE, text |-> t] :
            t \in { Decimal(MAX_CLIENTS), Decimal(MAX_CLIENTS_DEFAULT),
                    <<"0">>, <<"-", "5">>, <<"a", "b", "c">>, <<>>,
                    <<"1", "0", "0", "0", "1">>, <<"2", "0", "0", "0", "0">> } }

\* init_server, lines 355-361: max_clients from the environment.
MaxClientsOf(env) ==
    IF env.set THEN atoi(env.text) ELSE MAX_CLIENTS_DEFAULT

\* Descriptor numbers the listening socket may get: one below the size of
\* the slot table (as any small descriptor is with the default of 1000
\* slots), one not.
ListenFds == {MAX_CLIENTS - 1, MAX_CLIENTS + 1}

\* The scalable server after init_server with max_clients = MAX_CLIENTS.
NewScalable ==
    [ pc |-> "wait", nfds |-> 0,
      env |-> [set |-> TRUE, text |-> Decimal(MAX_CLIENTS)],
      max_clients |-> MAX_CLIENTS,
      buffer_pool |-> create_memory_pool(NumChunks),
      free_slots |-> [i \in SlotIds |-> MAX_CLIENTS - 1 - i],
      free_slot_count |-> MAX_CLIENTS,
      clients |-> [i \in SlotIds |-> NullClient],
      active_connections |-> 0, total_connections |-> 0,
      attempts |-> 0, allocs |-> 0, frees |-> 0, open_socks |-> 0,
      tls_listen_sock |-> MAX_CLIENTS + 1,
      event |-> [from |-> "none", data |-> 0, taken_as |-> "none"] ]

\* init_server for a value of the environment variable.  With a negative
\* max_clients the sizes of the tables wrap, create_memory_pool returns
\* NULL and init_server fails.  The run of server_loop is followed for the
\* table size MAX_CLIENTS; for the other sizes the state holds the server
\* as init_server leaves it and what the signal does to it.
init_server(env) ==
    LET n == MaxClientsOf(env)
    IN  [NewScalable EXCEPT !.env = env, !.max_clients = n,
                            !.free_slot_count = n,
                            !.pc = IF n < 0 THEN "init_failed" ELSE "wait"]

\* get_free_client_slot: the server after the call and the slot, -1 when
\* there is none.
get_free_client_slot(srv) ==
    IF srv.free_slot_count = 0
    THEN [ srv |-> srv, slot |-> -1 ]
    ELSE [ srv  |-> [srv EXCEPT !.free_slot_count = @ - 1,
                                !.active_connections = @ + 1],
           slot |-> srv.free_slots[srv.free_slot_count - 1] ]

\* A release_client_slot that leaves active_connections as it is.
release_client_slot_keep(srv, slot) ==
    [srv EXCEPT !.free_slots = [i \in SlotIds |->
                        IF i = srv.free_slot_count THEN slot ELSE srv.free_slots[i]],
                !.free_slot_count = @ + 1,
                !.clients[slot] = IF @.rec THEN ZeroClient ELSE @]

\* release_client_slot.
release_client_slot(srv, slot) ==
    [srv EXCEPT !.free_slots = [i \in SlotIds |->
                        IF i = srv.free_slot_count THEN slot ELSE srv.free_slots[i]],
                !.free_slot_count = @ + 1,
                !.active_connections = @ - 1,
                !.clients[slot] = IF @.rec THEN ZeroClient ELSE @]

\* The calls of handle_new_client that may fail.
NewClientFails == {"none", "qp", "epoll"}

\* handle_new_client, with f the call that fails.  open_socks counts the
\* accepted sockets that are open: tls_sock is closed when there is no free
\* slot (line 296) and on no other path.
handle_new_client(srv, f) ==
    LET g == get_free_client_slot(srv)
    IN  IF g.slot < 0
        THEN [srv EXCEPT !.open_socks = @ - 1]
        ELSE LET a  == pool_alloc(g.srv.buffer_pool)
                 s1 == [g.srv EXCEPT
                          !.buffer_pool = a.pool,
                          !.allocs = IF a.id < 0 THEN @ ELSE @ + 1,
                          !.clients[g.slot] =
                              [ZeroClient EXCEPT
                                  !.client_id = g.slot,
                                  !.state = "STATE_TLS_HANDSHAKE",
                                  !.active = 1,
                                  !.send_buffer = a.id,
                                  !.buffer_id = IF a.id < 0
                                                THEN g.srv.clients[g.slot].buffer_id
                                                ELSE a.id]]
                 s2 == [s1 EXCEPT
                          !.buffer_pool = pool_free(@, s1.clients[g.slot].buffer_id),
                          !.frees = @ + 1]
             IN  IF a.id < 0 THEN release_client_slot(s1, g.slot)
                 ELSE IF f \in {"qp", "epoll"} THEN release_client_slot(s2, g.slot)
                 ELSE [s1 EXCEPT !.clients[g.slot].qp = "live",
                                 !.total_connections = @ + 1]

\* The process-wide resources the server holds after its initialisation:
\* init_server of secure_rdma_server_100.c, and init_server and
\* init_rdma_shared of secure_rdma_server_scalable.c.
SharedOf(variant) ==
    IF variant = "scalable"
    THEN {"clients", "free_slots", "buffer_pool", "epoll_fd", "events",
          "dev_list", "device_ctx", "pd", "comp_channel", "shared_cqs",
          "ssl_ctx", "tls_listen_sock"}
    ELSE {"server", "clients_mutex", "ssl_ctx", "tls_listen_sock",
          "dev_list", "device_ctx"}

InitWith(C) ==
    /\ cfg \in C
    /\ running = TRUE
    /\ crashed = FALSE
    /\ clients = [i \in Slots |-> NULL]
    /\ num_clients = 0
    /\ lpc = "start"
    /\ lconn = NULL
    /\ mpc = "run"
    /\ shared = SharedOf(cfg.variant)
    /\ sc \in IF cfg.variant = "scalable"
               THEN { [init_server(e) EXCEPT !.tls_listen_sock = fd] :
                        e \in EnvValues, fd \in ListenFds }
               ELSE { NewScalable }
    /\ cl = [c \in Conn |-> NewClient]
    /\ sv = [c \in Conn |-> NoServer]
    /\ c2s = [c \in Conn |-> <<>>]
    /\ s2c = [c \in Conn |-> <<>>]
    /\ ctls = [c \in Conn |-> "none"]
    /\ stls = [c \in Conn |-> "none"]
    /\ leaked = {}

\* ------------------------------------------------------- the TLS stream

\* SSL_read blocks until a message is there or the peer has closed.
CanRead(q, peerOpen) == q # <<>> \/ ~peerOpen

\* SSL_read of n octets returns n only when a whole n-octet message is read.
ReadOk(q, n) == q # <<>> /\ Len(Head(q)) = n

\* What SSL_read returns: the octets of the message read, 0 when the peer
\* has closed.
SslRead(q) == IF q = <<>> THEN 0 ELSE Len(Head(q))

\* SSL_write returns once the stream has taken the message: at once when at
\* most cap messages are then unread, and else when the peer has read.
Blocked(q) == Len(q) > cfg.cap

\* ------------------------------------------------------ the client side
\* secure_rdma_client.c

\* cleanup_client, and what the operating system does when the process is
\* killed: every resource of the client is released and its TLS endpoint
\* closed.  The record returns to its calloc'ed form.
ClientGone(c) ==
    /\ cl' = [cl EXCEPT ![c] = NewClient]
    /\ ctls' = [ctls EXCEPT ![c] = "closed"]

ClientLog(c, e) == Append(cl[c].log, e)

\* Neither side uses connection id c.
Unused(c) ==
    /\ cl[c].pc = "idle"
    /\ sv[c].pc = "none"
    /\ \A i \in Slots : clients[i] # c
    /\ lconn # c

\* main: calloc the context and call connect_tls_server, which blocks until
\* the server has accepted.  A new connection takes an id that neither side
\* still uses.
ClientConnect(c) ==
    /\ c \in cfg.peers
    /\ Unused(c)
    /\ cl' = [cl EXCEPT ![c].pc = "hs"]
    /\ ctls' = [ctls EXCEPT ![c] = "none"]
    /\ stls' = [stls EXCEPT ![c] = "none"]
    /\ c2s' = [c2s EXCEPT ![c] = <<>>]
    /\ s2c' = [s2c EXCEPT ![c] = <<>>]
    /\ UNCHANGED << cfgVars, procVars, tableVars, sv >>

\* exchange_psn_client, first half: draw the PSN and write it.  A foreign
\* peer writes the four octets of the word d as they are.
ClientPsnWrite(c) ==
    /\ cl[c].pc = "psn_write"
    /\ \E d \in cfg.entropy, wok \in BOOLEAN :
        LET psn == IF c \in cfg.foreign
                   THEN generate_secure_psn_nomask(d) + 16777216 * d[4]
                   ELSE generate_secure_psn(d)
            q   == Append(c2s[c], htonl(psn))
        IN  IF stls[c] = "open" \/ wok
            THEN /\ cl' = [cl EXCEPT ![c] =
                        [@ EXCEPT !.local_psn = psn,
                                  !.log = ClientLog(c, "psn_w"),
                                  !.pc = IF stls[c] = "open" /\ Blocked(q)
                                         THEN "psn_wblk" ELSE "psn_read"]]
                 /\ c2s' = [c2s EXCEPT ![c] = IF stls[c] = "open" THEN q ELSE @]
                 /\ UNCHANGED ctls
            ELSE ClientGone(c) /\ UNCHANGED c2s
    /\ UNCHANGED << cfgVars, procVars, tableVars, sv, s2c, stls >>

\* SSL_write returning after it had to wait for the peer to read.
ClientWriteDone(c) ==
    /\ cl[c].pc \in {"psn_wblk", "ep_wblk"}
    /\ ~Blocked(c2s[c]) \/ stls[c] # "open"
    /\ IF ~Blocked(c2s[c])
       THEN /\ cl' = [cl EXCEPT ![c].pc =
                        IF cl[c].pc = "psn_wblk" THEN "psn_read"
                        ELSE IF c \in cfg.perf THEN "ep_recv" ELSE "setup_qp"]
            /\ UNCHANGED ctls
       ELSE ClientGone(c)
    /\ UNCHANGED << cfgVars, procVars, tableVars, sv, c2s, s2c, stls >>

\* exchange_psn_client, second half: read the server's PSN.
ClientPsnRead(c) ==
    /\ cl[c].pc = "psn_read"
    /\ CanRead(s2c[c], stls[c] = "open")
    /\ IF ReadOk(s2c[c], SizeofPsn)
       THEN /\ cl' = [cl EXCEPT ![c] =
                        [@ EXCEPT !.remote_psn = ntohl(Head(s2c[c])),
                                  !.log = ClientLog(c, "psn_r"),
                                  !.pc = "connect"]]
            /\ UNCHANGED ctls
       ELSE ClientGone(c)
    /\ s2c' = [s2c EXCEPT ![c] = IF @ = <<>> THEN @ ELSE Tail(@)]
    /\ UNCHANGED << cfgVars, procVars, tableVars, sv, c2s, stls >>

\* connect_to_server: event channel, id, address and route resolution, CQs,
\* QP and init_rdma_resources.  The QP is created in RESET.
ClientConnectRdma(c) ==
    /\ cl[c].pc = "connect"
    /\ \E ok \in Oks(c) :
        IF ok
        THEN /\ cl' = [cl EXCEPT ![c] =
                        [@ EXCEPT !.res = "live",
                                  !.qp = [NoQp EXCEPT !.state = "RESET"],
                                  !.pc = IF c \in cfg.perf
                                         THEN "ep_send" ELSE "ep_recv"]]
             /\ UNCHANGED ctls
        ELSE ClientGone(c)
    /\ UNCHANGED << cfgVars, procVars, tableVars, sv, c2s, s2c, stls >>

\* setup_qp_with_psn, lines 93-113: the local endpoint descriptor.
ClientLocalParams(c) ==
    [ qp_num      |-> QpNum("c", c),
      lid         |-> PortLid("c"),
      gid         |-> PortGid("c", c),
      psn         |-> cl[c].local_psn,
      rkey        |-> MrRkey("c", c),
      remote_addr |-> BufAddr("c", c) ]

\* create_rdma_resources of rdma_perf_client.c, lines 152-159: the local
\* endpoint descriptor of the performance-test client; rkey and
\* remote_addr keep the zeros of the context's initialiser.
PerfLocalParams(c) ==
    [ qp_num      |-> QpNum("c", c),
      lid         |-> 0,
      gid         |-> PortGid("c", c),
      psn         |-> cl[c].local_psn,
      rkey        |-> 0,
      remote_addr |-> <<0, 0>> ]

\* setup_qp_with_psn, lines 93-121: query the port and the GID, then read
\* the server's endpoint descriptor.  connect_to_server of
\* rdma_perf_client.c, lines 270-274: read it after the local one was
\* written, with SSL_read into the struct.
ClientEpRecv(c) ==
    /\ cl[c].pc = "ep_recv"
    /\ CanRead(s2c[c], stls[c] = "open")
    /\ \E qok \in IF c \in cfg.perf THEN {TRUE} ELSE Oks(c) :
        IF ~qok
        THEN ClientGone(c) /\ UNCHANGED s2c
        ELSE /\ IF ReadOk(s2c[c], SizeofParams)
                THEN /\ cl' = [cl EXCEPT ![c] =
                            [@ EXCEPT !.remote_params =
                                          IF c \in cfg.perf
                                          THEN RawDecode(Head(s2c[c]))
                                          ELSE DecodeParams(Head(s2c[c])),
                                      !.log = ClientLog(c, "ep_r"),
                                      !.pc = IF c \in cfg.perf
                                             THEN "setup_qp" ELSE "ep_send"]]
                     /\ UNCHANGED ctls
                ELSE ClientGone(c)
             /\ s2c' = [s2c EXCEPT ![c] = IF @ = <<>> THEN @ ELSE Tail(@)]
    /\ UNCHANGED << cfgVars, procVars, tableVars, sv, c2s, stls >>

\* setup_qp_with_psn, lines 123-128: write the local endpoint descriptor.
\* connect_to_server of rdma_perf_client.c, lines 264-268: write it before
\* the server's is read, with SSL_write of the struct.
ClientEpSend(c) ==
    /\ cl[c].pc = "ep_send"
    /\ \E p1 \in cfg.pads, p2 \in cfg.pads, wok \in BOOLEAN :
        LET m == IF c \in cfg.perf
                 THEN RawParams(PerfLocalParams(c), <<p1, p2>>)
                 ELSE EncodeParams(ClientLocalParams(c), <<p1, p2>>)
            q == Append(c2s[c], m)
        IN  IF stls[c] = "open" \/ wok
            THEN /\ cl' = [cl EXCEPT ![c] =
                        [@ EXCEPT !.log = ClientLog(c, "ep_w"),
                                  !.pc = IF stls[c] = "open" /\ Blocked(q)
                                         THEN "ep_wblk"
                                         ELSE IF c \in cfg.perf
                                         THEN "ep_recv" ELSE "setup_qp"]]
                 /\ c2s' = [c2s EXCEPT ![c] = IF stls[c] = "open" THEN q ELSE @]
                 /\ UNCHANGED ctls
            ELSE ClientGone(c) /\ UNCHANGED c2s
    /\ UNCHANGED << cfgVars, procVars, tableVars, sv, s2c, stls >>

\* Attributes that take the receive PSN from the local PSN: the confusion
\* of the two PSNs that the bring-up must not make.
ModifyAttrLocalRq(r, target) ==
    CASE target = "INIT" -> [r.qp EXCEPT !.state = "INIT"]
      [] target = "RTR"  -> [r.qp EXCEPT !.state = "RTR",
                                         !.dest_qp_num = r.remote_params.qp_num,
                                         !.rq_psn = r.local_psn]
      [] target = "RTS"  -> [r.qp EXCEPT !.state = "RTS",
                                         !.sq_psn = r.local_psn]

\* The attributes setup_qp_with_psn hands to ibv_modify_qp, by target state.
\* r is the record of the side that modifies its QP.
ModifyAttr(r, target) ==
    CASE target = "INIT" -> [r.qp EXCEPT !.state = "INIT"]
      [] target = "RTR"  -> [r.qp EXCEPT !.state = "RTR",
                                         !.dest_qp_num = r.remote_params.qp_num,
                                         !.rq_psn = r.remote_psn]
      [] target = "RTS"  -> [r.qp EXCEPT !.state = "RTS",
                                         !.sq_psn = r.local_psn]

\* A walk that leaves out RTR.
QpPathSkipsRtr == << "INIT", "RTS" >>

\* The order in which setup_qp_with_psn walks the QP states.
QpPath == << "INIT", "RTR", "RTS" >>

\* The ibv_modify_qp calls of setup_qp_with_psn from the k-th on, in order,
\* up to the one that fails (f; "none" when none does).  Each call that
\* succeeds is noted in the record's log.
RECURSIVE WalkQp(_, _, _)
WalkQp(r, k, f) ==
    IF k > Len(QpPath) \/ QpPath[k] = f
    THEN r
    ELSE WalkQp([r EXCEPT !.qp = ModifyAttr(r, QpPath[k]),
                          !.log = Append(@, QpPath[k])], k + 1, f)

\* The ibv_modify_qp call that fails on connection c, if any.
ModifyFails(c) ==
    IF c \in cfg.faulty THEN {"none", "INIT", "RTR", "RTS"} ELSE {"none"}

\* modify_qp_to_rtr of rdma_perf_client.c, lines 165-200: dest_qp_num and
\* rq_psn are the fields of remote_params.
modify_qp_to_rtr(r) ==
    [r.qp EXCEPT !.state = "RTR", !.dest_qp_num = r.remote_params.qp_num,
                 !.rq_psn = r.remote_params.psn]

\* connect_to_server of rdma_perf_client.c, lines 276-298: INIT, then
\* modify_qp_to_rtr, then modify_qp_to_rts (sq_psn is local_psn).
PerfWalkQp(r) ==
    [r EXCEPT !.qp  = [modify_qp_to_rtr(r) EXCEPT !.state = "RTS",
                                                  !.sq_psn = r.local_psn],
              !.log = @ \o QpPath]

\* setup_qp_with_psn, lines 137-206: the three QP transitions.  With no
\* message to send, run_rdma_client_test goes on to its clean-up (lines
\* 395, 428-440), as the interactive client does from its input loop.
ClientSetupQp(c) ==
    /\ cl[c].pc = "setup_qp"
    /\ \E f \in ModifyFails(c) :
        IF f = "none"
        THEN /\ cl' = [cl EXCEPT ![c] =
                        IF c \in cfg.perf
                        THEN [PerfWalkQp(cl[c]) EXCEPT !.pc = "loop"]
                        ELSE [WalkQp(cl[c], 1, f) EXCEPT !.pc = "post_first"]]
             /\ UNCHANGED ctls
        ELSE ClientGone(c)
    /\ UNCHANGED << cfgVars, procVars, tableVars, sv, c2s, s2c, stls >>

\* ibv_post_recv: one more receive work request, refused beyond max_recv_wr.
PostRecv(n) == IF n < MAX_RECV_WR THEN n + 1 ELSE n

RECURSIVE PostRecvs(_, _)
PostRecvs(n, k) == IF k = 0 THEN n ELSE PostRecvs(PostRecv(n), k - 1)

\* run_interactive_client, lines 446-449: the initial receives.
ClientPostInit(c) ==
    /\ cl[c].pc = "post_first"
    /\ cl' = [cl EXCEPT ![c] =
                [@ EXCEPT !.posted = PostRecvs(@, INITIAL_RECVS),
                          !.log = ClientLog(c, "post"),
                          !.pc = "welcome"]]
    /\ UNCHANGED << cfgVars, procVars, tableVars, sv, c2s, s2c, ctls, stls >>

\* receive_message: wait for one receive completion; on success post
\* another receive.  run_interactive_client ignores the result.
ClientReceive(c) ==
    /\ cl[c].pc \in {"welcome", "recv_wait"}
    /\ cl[c].recv_cq # <<>>
    /\ cl' = [cl EXCEPT ![c] =
                [@ EXCEPT !.recv_cq = Tail(@),
                          !.posted = IF Head(cl[c].recv_cq) = "SUCCESS"
                                     THEN PostRecv(@) ELSE @,
                          !.pc = "loop"]]
    /\ UNCHANGED << cfgVars, procVars, tableVars, sv, c2s, s2c, ctls, stls >>

\* A send_message that does not look at the completion's status.
SendResultIgnored(status) == 0

\* send_message, lines 296-303: the result by the completion's status.
SendResult(status) == IF status = "SUCCESS" THEN 0 ELSE -1

\* The commands of run_interactive_client that post a work request:
\* "send <message>" and "write <message>".
Commands == {"send", "write"}

\* The lengths of a command's message: "hello", and the longest that fgets
\* into input[256] leaves after the command word and its blank.
MsgLens(op) == {5, INPUT_SIZE - 1 - (Len(op) + 1)}

\* What ibv_poll_cq leaves in a wc it did not fill in: the status member
\* of the uninitialised local compares equal to IBV_WC_SUCCESS or it does
\* not.
Uninitialised == {"SUCCESS", "GARBAGE"}

\* send_message, lines 233-255, and rdma_write_to_server, lines 293-317:
\* post one signaled work request.
ClientSend(c) ==
    /\ cl[c].pc = "loop"
    /\ cl[c].sent < cfg.msgs[c]
    /\ \E ok \in Oks(c), op \in Commands :
        \E len \in MsgLens(op) :
            cl' = [cl EXCEPT ![c] =
                IF ok /\ cl[c].qp.state \in {"RTS", "ERR"}
                THEN [@ EXCEPT !.swr = Append(@, <<op, cl[c].sent + 1, len>>),
                               !.sent = @ + 1,
                               !.pc = IF op = "send" THEN "send_wait"
                                                     ELSE "write_wait"]
                ELSE [@ EXCEPT !.sent = @ + 1,
                               !.send = [posted |-> FALSE, polled |-> 0,
                                         status |-> "none", ret |-> -1]]]
    /\ UNCHANGED << cfgVars, procVars, tableVars, sv, c2s, s2c, ctls, stls >>

\* send_message, lines 257-267, and rdma_write_to_server, lines 319-329:
\* the poll loop ends when ibv_poll_cq returns a completion or an error,
\* and wc.status decides the result.  After a successful send the caller
\* waits for the reply.
ClientSendDone(c) ==
    /\ cl[c].pc \in {"send_wait", "write_wait"}
    /\ cl[c].send_cq # <<>> \/ c \in cfg.faulty
    /\ \E pok \in Oks(c), garbage \in Uninitialised :
        /\ pok => cl[c].send_cq # <<>>
        /\ LET wc == IF pok THEN Head(cl[c].send_cq) ELSE garbage
               rc == SendResult(wc)
           IN  cl' = [cl EXCEPT ![c] =
                [@ EXCEPT !.send_cq = IF pok THEN Tail(@) ELSE @,
                          !.send = [posted |-> TRUE,
                                    polled |-> IF pok THEN 1 ELSE -1,
                                    status |-> wc, ret |-> rc],
                          !.pc = IF rc = 0 /\ cl[c].pc = "send_wait"
                                 THEN "recv_wait" ELSE "loop"]]
    /\ UNCHANGED << cfgVars, procVars, tableVars, sv, c2s, s2c, ctls, stls >>

\* The client ends: "quit" or end of input in run_interactive_client
\* followed by cleanup_client, or the process is killed at any point after
\* the TLS handshake.
ClientClose(c) ==
    /\ cl[c].pc \notin {"idle", "hs"}
    /\ c \in cfg.faulty \/ cl[c].pc = "loop"
    /\ ClientGone(c)
    /\ UNCHANGED << cfgVars, procVars, tableVars, sv, c2s, s2c, stls >>

\* ------------------------------------------------------- the data plane
\* What the reliable-connected transport does with a posted send.

\* A QP accepts packets in RTR and RTS.
QpReceives(q) == q.state \in {"RTR", "RTS"}

\* The responder takes the message when its QP receives, its expected PSN
\* is the requester's send PSN and the QP numbers match.
Deliverable(from, to, toQpn) ==
    /\ from.qp.state = "RTS"
    /\ QpReceives(to.qp)
    /\ to.qp.rq_psn = from.qp.sq_psn
    /\ from.qp.dest_qp_num = toQpn

\* The requester's side of a completed send.
SendCompletes(r, status) ==
    [r EXCEPT !.swr = IF status = "SUCCESS" THEN Tail(@) ELSE <<>>,
              !.send_cq = IF status = "SUCCESS" THEN Append(@, status)
                          ELSE Append(@, status)
                               \o [i \in 1..(Len(r.swr) - 1) |-> "FLUSH_ERR"],
              !.qp = IF status = "SUCCESS" THEN @ ELSE [@ EXCEPT !.state = "ERR"],
              !.posted = IF status = "SUCCESS" THEN @ ELSE 0,
              !.recv_cq = IF status = "SUCCESS" THEN @
                          ELSE @ \o [i \in 1..r.posted |-> "FLUSH_ERR"]]

\* The responder's side of a delivered message: one receive work request is
\* consumed and completes.
RecvCompletes(r, payload) ==
    [r EXCEPT !.posted = @ - 1,
              !.recv_cq = Append(@, "SUCCESS"),
              !.recv_buffer = payload,
              !.rx = Append(@, payload)]

\* A client's send reaches the server.
DeliverToServer(c) ==
    /\ cl[c].swr # <<>>
    /\ Head(cl[c].swr)[1] = "send"
    /\ ~crashed
    /\ Deliverable(cl[c], sv[c], QpNum("s", c))
    /\ sv[c].posted > 0
    /\ sv' = [sv EXCEPT ![c] = RecvCompletes(@, Head(cl[c].swr))]
    /\ cl' = [cl EXCEPT ![c] = SendCompletes(@, "SUCCESS")]
    /\ UNCHANGED << cfgVars, procVars, tableVars, c2s, s2c, ctls, stls >>

\* The responder lets a remote write in when the key and the address are
\* those of its receive region, registered with IBV_ACCESS_REMOTE_WRITE.
WriteAllowed(c) ==
    /\ sv[c].recv_mr = "live"
    /\ cl[c].remote_params.rkey = MrRkey("s", c)
    /\ cl[c].remote_params.remote_addr = BufAddr("s", c)

\* A server where every queue pair and memory region is on one protection
\* domain.
PdShared(c) == << "pd", 0 >>

\* The protection domain of connection c's queue pair and memory regions:
\* client_handler_thread allocates one for each connection (ibv_alloc_pd)
\* and creates the QP and registers the regions on it.
PdOf(c) == << "pd", c >>

\* The connections whose receive region a remote write of connection c may
\* name: its own, from the descriptor it received; any, for a foreign peer
\* that puts another connection's key and address into the work request.
WriteTargets(c) == IF c \in cfg.foreign THEN Conn ELSE {c}

\* The responder lets a write of connection c into the receive region of
\* connection t when the region is registered and on the protection domain
\* of c's queue pair.
CrossAllowed(c, t) == sv[t].recv_mr = "live" /\ PdOf(t) = PdOf(c)

\* A client's RDMA write reaches the server: the data lands in the
\* server's receive buffer, no receive work request is consumed and the
\* server gets no completion.  A write that is not let in completes in
\* error.
WriteToServer(c) ==
    /\ cl[c].swr # <<>>
    /\ Head(cl[c].swr)[1] = "write"
    /\ ~crashed
    /\ Deliverable(cl[c], sv[c], QpNum("s", c))
    /\ \E t \in WriteTargets(c) :
        IF t = c
        THEN IF WriteAllowed(c)
             THEN /\ sv' = [sv EXCEPT ![c].recv_buffer = Head(cl[c].swr)]
                  /\ cl' = [cl EXCEPT ![c] = SendCompletes(@, "SUCCESS")]
             ELSE /\ sv' = sv
                  /\ cl' = [cl EXCEPT ![c] = SendCompletes(@, "REM_ACCESS_ERR")]
        ELSE IF CrossAllowed(c, t)
             THEN /\ sv' = [sv EXCEPT ![t].recv_buffer = Head(cl[c].swr)]
                  /\ cl' = [cl EXCEPT ![c] = SendCompletes(@, "SUCCESS")]
             ELSE /\ sv' = sv
                  /\ cl' = [cl EXCEPT ![c] = SendCompletes(@, "REM_ACCESS_ERR")]
    /\ UNCHANGED << cfgVars, procVars, tableVars, c2s, s2c, ctls, stls >>

\* A server's send reaches the client.
DeliverToClient(c) ==
    /\ sv[c].swr # <<>>
    /\ ~crashed
    /\ Deliverable(sv[c], cl[c], QpNum("c", c))
    /\ cl[c].posted > 0
    /\ cl' = [cl EXCEPT ![c] = RecvCompletes(@, Head(sv[c].swr))]
    /\ sv' = [sv EXCEPT ![c] = SendCompletes(@, "SUCCESS")]
    /\ UNCHANGED << cfgVars, procVars, tableVars, c2s, s2c, ctls, stls >>

\* A send is given up (retry count exceeded) because the peer's QP does not
\* take it; the requester's QP goes to the error state.
SendFails(c) ==
    /\ \E side \in {"c", "s"} :
        IF side = "c"
        THEN /\ cl[c].swr # <<>>
             /\ crashed \/ ~Deliverable(cl[c], sv[c], QpNum("s", c))
             /\ cl' = [cl EXCEPT ![c] = SendCompletes(@, "RETRY_EXC_ERR")]
             /\ UNCHANGED sv
        ELSE /\ sv[c].swr # <<>>
             /\ ~crashed
             /\ ~Deliverable(sv[c], cl[c], QpNum("c", c))
             /\ sv' = [sv EXCEPT ![c] = SendCompletes(@, "RETRY_EXC_ERR")]
             /\ UNCHANGED cl
    /\ UNCHANGED << cfgVars, procVars, tableVars, c2s, s2c, ctls, stls >>

\* ------------------------------------------------------ the server side
\* secure_rdma_server_100.c; secure_rdma_server.c where cfg.variant says so

\* The return code of a call.
Rc(ok) == IF ok THEN 0 ELSE -1

\* A StepTo that goes on after a failed call.
StepToNext(rc, next) == next

\* "if (call(...) < 0) goto cleanup;" and the returns and breaks of
\* handle_client_rdma, which all lead to the cleanup label.
StepTo(rc, next) == IF rc < 0 THEN "cleanup" ELSE next

\* What undefined behaviour may do: the call returns and the thread goes on,
\* or the process is killed.
UBOutcomes == {"goes_on", "killed"}

\* The server process is no more: every thread, record and endpoint of it
\* is gone.
ProcessGone ==
    /\ sv' = [d \in Conn |-> NoServer]
    /\ stls' = [d \in Conn |-> IF stls[d] = "open" THEN "closed" ELSE stls[d]]
    /\ clients' = [i \in Slots |-> NULL]
    /\ num_clients' = 0
    /\ lpc' = "dead"
    /\ lconn' = NULL

\* The server process is killed by a fault.
Crash ==
    /\ crashed' = TRUE
    /\ ProcessGone
    /\ UNCHANGED << running, leaked, mpc, shared, sc >>

\* The head of the listener's loop, "while (server->running)" (line 494):
\* into accept_tls_connection, or out of the loop.
LoopHead == IF running THEN "accept" ELSE "exited"

\* tls_listener_thread, lines 489-494: the thread starts and tests the flag
\* for the first time.
ListenerStart ==
    /\ ~crashed
    /\ cfg.variant # "scalable"
    /\ lpc = "start"
    /\ lpc' = LoopHead
    /\ UNCHANGED << cfgVars, procVars, clients, num_clients, lconn,
                    cl, sv, c2s, s2c, ctls, stls >>

\* A slot search that does not look at the table.
FirstSlot(t) == 1

\* The first free slot of the table, 0 when there is none.
FirstFree(t) ==
    IF \E i \in Slots : t[i] = NULL
    THEN CHOOSE i \in Slots : t[i] = NULL /\ \A k \in 1..(i - 1) : t[k] # NULL
    ELSE 0

\* The first slot that holds record c, 0 when there is none.
SlotOf(t, c) ==
    IF \E i \in Slots : t[i] = c
    THEN CHOOSE i \in Slots : t[i] = c /\ \A k \in 1..(i - 1) : t[k] # c
    ELSE 0

\* An admission test that lets one connection too many through.
TableFullOff == num_clients > MAX_CLIENTS

\* tls_listener_thread, line 509: the admission test.
TableFull == num_clients >= MAX_CLIENTS

\* tls_listener_thread, lines 494-538: accept one TLS connection, then under
\* clients_mutex either reject it (table full, or no memory for the record)
\* or enter a new record into the first free slot.  The thread sits in
\* accept() having found the flag set at the head of the loop; the flag is
\* not looked at again before the next head of the loop.
Admit(c) ==
    /\ ~crashed
    /\ lpc = "accept"
    /\ cl[c].pc = "hs"
    /\ \E hs \in Oks(c), mem \in Oks(c) :
        IF ~hs
        THEN /\ ClientGone(c)
             /\ lpc' = LoopHead
             /\ UNCHANGED << clients, num_clients, lconn, sv, stls >>
        ELSE /\ cl' = [cl EXCEPT ![c].pc = "psn_write"]
             /\ ctls' = [ctls EXCEPT ![c] = "open"]
             /\ IF TableFull \/ ~mem
                THEN /\ stls' = [stls EXCEPT ![c] = "closed"]
                     /\ lpc' = LoopHead
                     /\ UNCHANGED << clients, num_clients, lconn, sv >>
                ELSE LET i == FirstFree(clients)
                     IN  /\ stls' = [stls EXCEPT ![c] = "open"]
                         /\ sv' = [sv EXCEPT ![c] =
                                [NoServer EXCEPT !.pc = "created",
                                                 !.active = 1,
                                                 !.client_id = i]]
                         /\ clients' = IF i = 0 THEN clients
                                       ELSE [clients EXCEPT ![i] = c]
                         /\ num_clients' = IF i = 0 THEN num_clients
                                           ELSE num_clients + 1
                         /\ lpc' = "spawn"
                         /\ lconn' = c
    /\ UNCHANGED << cfgVars, procVars, c2s, s2c >>

\* tls_listener_thread, lines 543-547: pthread_create.  When it fails the
\* TLS connection is closed and the record freed; the slot keeps the freed
\* record's address and num_clients keeps counting it.
Spawn ==
    /\ ~crashed
    /\ lpc = "spawn"
    /\ \E ok \in Oks(lconn) :
        IF ok
        THEN /\ sv' = [sv EXCEPT ![lconn].pc = "psn_read"]
             /\ UNCHANGED stls
        ELSE /\ sv' = [sv EXCEPT ![lconn] = NoServer]
             /\ stls' = [stls EXCEPT ![lconn] = "closed"]
    /\ lpc' = "detach"
    /\ UNCHANGED << cfgVars, procVars, clients, num_clients, lconn,
                    cl, c2s, s2c, ctls >>

\* tls_listener_thread, line 549: pthread_detach(client->thread_id).  When
\* the record has been freed by then (pthread_create failed, or the handler
\* has already returned) this reads freed memory.
Detach ==
    /\ ~crashed
    /\ lpc = "detach"
    /\ \E ub \in UBOutcomes :
        IF sv[lconn].pc = "none" /\ ub = "killed"
        THEN Crash
        ELSE /\ lpc' = LoopHead
             /\ lconn' = NULL
             /\ UNCHANGED << procVars, clients, num_clients, sv, stls >>
    /\ UNCHANGED << cfgVars, cl, c2s, s2c, ctls >>

ServerLog(c, e) == Append(sv[c].log, e)

\* exchange_psn_server: draw the PSN, read the client's, write the own.
\* A peer that is not this client: it writes only the first k octets of
\* the record that is due, 1 <= k < n, and closes.  SSL_read then returns
\* k to the reader.
ClientTruncated(c) ==
    /\ c \in cfg.faulty
    /\ cl[c].pc \in {"psn_write", "ep_send"}
    /\ stls[c] = "open"
    /\ \E d \in cfg.entropy, short \in BOOLEAN :
        LET whole == IF cl[c].pc = "psn_write"
                     THEN htonl(generate_secure_psn(d))
                     ELSE EncodeParams(ClientLocalParams(c), <<0, 0>>)
            k     == IF short THEN 1 ELSE Len(whole) - 1
        IN  c2s' = [c2s EXCEPT ![c] = Append(@, SubSeq(whole, 1, k))]
    /\ ClientGone(c)
    /\ UNCHANGED << cfgVars, procVars, tableVars, sv, s2c, stls >>

ServerPsnExchange(c) ==
    /\ ~crashed
    /\ sv[c].pc = "psn_read"
    /\ CanRead(c2s[c], ctls[c] = "open")
    /\ \E d \in cfg.entropy, e \in cfg.rng, wok \in BOOLEAN :
        LET psn == generate_secure_psn(d)
            rd  == ReadOk(c2s[c], SizeofPsn)
            wr  == ctls[c] = "open" \/ wok
            q   == Append(s2c[c], htonl(psn))
            rc  == Rc(rd /\ wr)
        IN  /\ sv' = [sv EXCEPT ![c] =
                    [@ EXCEPT !.local_psn = psn,
                              !.psn_src = EntropySource(e),
                              !.remote_psn = IF rd THEN ntohl(Head(c2s[c])) ELSE @,
                              !.nread = SslRead(c2s[c]),
                              !.log = IF rd /\ wr
                                      THEN Append(ServerLog(c, "psn_r"), "psn_w")
                                      ELSE IF rd THEN ServerLog(c, "psn_r") ELSE @,
                              !.rc = rc,
                              !.pc = IF rc = 0 /\ ctls[c] = "open" /\ Blocked(q)
                                     THEN "psn_wblk" ELSE StepTo(rc, "create")]]
            /\ s2c' = [s2c EXCEPT ![c] =
                        IF rd /\ ctls[c] = "open" THEN q ELSE @]
    /\ c2s' = [c2s EXCEPT ![c] = IF @ = <<>> THEN @ ELSE Tail(@)]
    /\ UNCHANGED << cfgVars, procVars, tableVars, cl, ctls, stls >>

\* The symmetric order: the server reads first, as the client does.
ServerExchangeSwapped == << "ep_recv", "ep_send" >>

\* The order in which the server's setup_qp_with_psn runs the two halves of
\* the endpoint exchange (lines 142-154).
ServerExchangeOrder == << "ep_send", "ep_recv" >>

\* The position after one half of the endpoint exchange.
AfterEp(step) ==
    IF ServerExchangeOrder[1] = step THEN ServerExchangeOrder[2] ELSE "setup_qp"

\* SSL_write returning after it had to wait for the client to read.
ServerWriteDone(c) ==
    /\ ~crashed
    /\ sv[c].pc \in {"psn_wblk", "ep_wblk"}
    /\ ~Blocked(s2c[c]) \/ ctls[c] # "open"
    /\ LET rc == Rc(~Blocked(s2c[c]))
       IN  sv' = [sv EXCEPT ![c] =
                [@ EXCEPT !.rc = rc,
                          !.pc = StepTo(rc, IF sv[c].pc = "psn_wblk" THEN "create"
                                            ELSE AfterEp("ep_send"))]]
    /\ UNCHANGED << cfgVars, procVars, tableVars, cl, c2s, s2c, ctls, stls >>

\* The calls of client_handler_thread between the PSN exchange and
\* setup_qp_with_psn, in order; one of them may fail.
Stages(c) ==
          IF c \in cfg.faulty
          THEN {"none", "dev", "pd", "send_cq", "recv_cq", "qp", "buf", "mr"}
          ELSE {"none"}

\* The device context the handler works on: the server's shared one, or in
\* secure_rdma_server.c one it opens for itself.
OwnCtx == IF cfg.variant = "server" THEN "live" ELSE "shared"

\* Error paths that close the device context in every server.
ClosedCtxAlways == "freed"

\* ibv_close_device on the error paths of secure_rdma_server.c.
ClosedCtx == IF cfg.variant = "server" THEN "freed" ELSE "shared"

\* client_handler_thread, lines 380-442: device context, PD, the two CQs,
\* the QP (created in RESET), and init_rdma_resources (buffers and MRs).
\* A handle is "null", "live", "stale" (destroyed, the pointer kept in the
\* record) or "freed".
ServerCreate(c) ==
    /\ ~crashed
    /\ sv[c].pc = "create"
    /\ \E f \in Stages(c) :
        sv' = [sv EXCEPT ![c] =
            CASE f = "dev" ->
                    [@ EXCEPT !.rc = -1, !.pc = StepTo(-1, "")]
              [] f = "pd" ->
                    [@ EXCEPT !.ctx = ClosedCtx, !.rc = -1, !.pc = StepTo(-1, "")]
              [] f \in {"send_cq", "recv_cq"} ->
                    [@ EXCEPT !.ctx = ClosedCtx, !.pd = "stale",
                              !.rc = -1, !.pc = StepTo(-1, "")]
              [] f = "qp" ->
                    [@ EXCEPT !.ctx = ClosedCtx, !.pd = "stale",
                              !.send_cq_h = "stale", !.recv_cq_h = "stale",
                              !.rc = -1, !.pc = StepTo(-1, "")]
              [] f = "buf" ->
                    [@ EXCEPT !.ctx = OwnCtx, !.pd = "live",
                              !.send_cq_h = "live", !.recv_cq_h = "live",
                              !.qp = [NoQp EXCEPT !.state = "RESET"],
                              !.send_buffer = "live",
                              !.rc = -1, !.pc = StepTo(-1, "")]
              [] f = "mr" ->
                    [@ EXCEPT !.ctx = OwnCtx, !.pd = "live",
                              !.send_cq_h = "live", !.recv_cq_h = "live",
                              !.qp = [NoQp EXCEPT !.state = "RESET"],
                              !.send_buffer = "live", !.recv_buffer_h = "live",
                              !.send_mr = "live",
                              !.rc = -1, !.pc = StepTo(-1, "")]
              [] f = "none" ->
                    [@ EXCEPT !.ctx = OwnCtx, !.pd = "live",
                              !.send_cq_h = "live", !.recv_cq_h = "live",
                              !.qp = [NoQp EXCEPT !.state = "RESET"],
                              !.send_buffer = "live", !.recv_buffer_h = "live",
                              !.send_mr = "live", !.recv_mr = "live",
                              !.rc = 0, !.pc = StepTo(0, ServerExchangeOrder[1])]]
    /\ UNCHANGED << cfgVars, procVars, tableVars, cl, c2s, s2c, ctls, stls >>

\* The local endpoint descriptor with the peer's PSN in the psn field.
ServerLocalParamsPeer(c) ==
    [ qp_num      |-> QpNum("s", c),
      lid         |-> PortLid("s"),
      gid         |-> PortGid("s", c),
      psn         |-> sv[c].remote_psn,
      rkey        |-> MrRkey("s", c),
      remote_addr |-> BufAddr("s", c) ]

\* setup_qp_with_psn, lines 128-133: the local endpoint descriptor.
ServerLocalParams(c) ==
    [ qp_num      |-> QpNum("s", c),
      lid         |-> PortLid("s"),
      gid         |-> PortGid("s", c),
      psn         |-> sv[c].local_psn,
      rkey        |-> MrRkey("s", c),
      remote_addr |-> BufAddr("s", c) ]

\* setup_qp_with_psn, lines 120-147: query the port and the GID and write
\* the local endpoint descriptor.
ServerEpSend(c) ==
    /\ ~crashed
    /\ sv[c].pc = "ep_send"
    /\ \E qok \in Oks(c), p1 \in cfg.pads, p2 \in cfg.pads, wok \in BOOLEAN :
        LET q  == Append(s2c[c], EncodeParams(ServerLocalParams(c), <<p1, p2>>))
            rc == Rc(qok /\ (ctls[c] = "open" \/ wok))
        IN  /\ sv' = [sv EXCEPT ![c] =
                    [@ EXCEPT !.log = IF rc = 0 THEN ServerLog(c, "ep_w") ELSE @,
                              !.rc = rc,
                              !.pc = IF rc = 0 /\ ctls[c] = "open" /\ Blocked(q)
                                     THEN "ep_wblk"
                                     ELSE StepTo(rc, AfterEp("ep_send"))]]
            /\ s2c' = [s2c EXCEPT ![c] =
                        IF qok /\ ctls[c] = "open" THEN q ELSE @]
    /\ UNCHANGED << cfgVars, procVars, tableVars, cl, c2s, ctls, stls >>

\* setup_qp_with_psn, lines 150-153: read the client's endpoint descriptor.
ServerEpRecv(c) ==
    /\ ~crashed
    /\ sv[c].pc = "ep_recv"
    /\ CanRead(c2s[c], ctls[c] = "open")
    /\ LET rc == Rc(ReadOk(c2s[c], SizeofParams))
       IN  sv' = [sv EXCEPT ![c] =
                [@ EXCEPT !.remote_params = IF rc = 0
                                            THEN DecodeParams(Head(c2s[c])) ELSE @,
                          !.log = IF rc = 0 THEN ServerLog(c, "ep_r") ELSE @,
                          !.nread = SslRead(c2s[c]),
                          !.rc = rc,
                          !.pc = StepTo(rc, AfterEp("ep_recv"))]]
    /\ c2s' = [c2s EXCEPT ![c] = IF @ = <<>> THEN @ ELSE Tail(@)]
    /\ UNCHANGED << cfgVars, procVars, tableVars, cl, s2c, ctls, stls >>

\* setup_qp_with_psn, lines 172-242: the three QP transitions.
ServerSetupQp(c) ==
    /\ ~crashed
    /\ sv[c].pc = "setup_qp"
    /\ \E f \in ModifyFails(c) :
        sv' = [sv EXCEPT ![c] =
            [WalkQp(sv[c], 1, f) EXCEPT !.rc = Rc(f = "none"),
                                       !.pc = StepTo(Rc(f = "none"), "post_first")]]
    /\ UNCHANGED << cfgVars, procVars, tableVars, cl, c2s, s2c, ctls, stls >>

\* handle_client_rdma, lines 314-327 with send_message, lines 274-291: post
\* the first receive and post the welcome message.
ServerStart(c) ==
    /\ ~crashed
    /\ sv[c].pc = "post_first"
    /\ \E rok \in Oks(c), sok \in Oks(c) :
        LET rposted == rok /\ sv[c].qp.state \notin {"none", "RESET"}
            sposted == rposted /\ sok /\ sv[c].qp.state \in {"RTS", "ERR"}
        IN  sv' = [sv EXCEPT ![c] =
                [@ EXCEPT !.posted = IF rposted THEN PostRecv(@) ELSE @,
                          !.log = IF rposted THEN ServerLog(c, "post") ELSE @,
                          !.swr = IF sposted
                                  THEN Append(@, << "welcome", sv[c].client_id,
                                          sv[c].local_psn, sv[c].remote_psn >>)
                                  ELSE @,
                          !.send = IF rposted /\ ~sposted
                                   THEN [posted |-> FALSE, polled |-> 0,
                                         status |-> "none", ret |-> -1]
                                   ELSE @,
                          !.rc = Rc(sposted),
                          !.pc = StepTo(Rc(sposted), "welcome_wait")]]
    /\ UNCHANGED << cfgVars, procVars, tableVars, cl, c2s, s2c, ctls, stls >>

\* send_message, lines 294-303: wait for the completion of the send; after
\* an echo, handle_client_rdma posts another receive (line 346).  In
\* secure_rdma_server.c the wait polls client->cm_id->send_cq (line 298)
\* with cm_id a null pointer.
ServerSendDone(c) ==
    /\ ~crashed
    /\ sv[c].pc \in {"welcome_wait", "echo_wait"}
    /\ cfg.variant = "server" \/ sv[c].send_cq # <<>> \/ c \in cfg.faulty
    /\ \E rok \in Oks(c), pok \in Oks(c), garbage \in Uninitialised :
        IF cfg.variant = "server"
        THEN Crash
        ELSE /\ pok => sv[c].send_cq # <<>>
             /\ LET wc == IF pok THEN Head(sv[c].send_cq) ELSE garbage
                    rc == SendResult(wc)
                    repost == rc = 0 /\ sv[c].pc = "echo_wait"
                    rc2 == IF repost THEN Rc(rok) ELSE rc
                IN  sv' = [sv EXCEPT ![c] =
                        [@ EXCEPT !.send_cq = IF pok THEN Tail(@) ELSE @,
                                  !.wc = wc,
                                  !.send = [posted |-> TRUE,
                                            polled |-> IF pok THEN 1 ELSE -1,
                                            status |-> wc, ret |-> rc],
                                  !.posted = IF repost /\ rok THEN PostRecv(@) ELSE @,
                                  !.rc = rc2,
                                  !.pc = StepTo(rc2, "loop")]]
             /\ UNCHANGED << procVars, tableVars, stls >>
    /\ UNCHANGED << cfgVars, cl, c2s, s2c, ctls >>

\* The characters of client_id printed with %d.
Digits(n) == IF n < 10 THEN 1 ELSE IF n < 100 THEN 2 ELSE 3

\* The length of "Server echo [Client %d]: " for client id n.
EchoPrefixLen(n) == Len("Server echo [Client ") + Digits(n) + Len("]: ")

\* snprintf into a buffer of size octets: the characters stored, of len
\* asked for.
snprintf(size, len) == IF len < size THEN len ELSE size - 1

\* handle_client_rdma, lines 339-341: the reply to the message msg in the
\* receive buffer: the id printed, the message echoed and the length of the
\* response that is sent.
Echo(id, msg) ==
    << "echo", id, msg[2], snprintf(RESPONSE_SIZE, EchoPrefixLen(id) + msg[3]) >>

\* handle_client_rdma, lines 330-357: one round of the loop that finds a
\* receive completion or finds the loop condition false.  A round that
\* finds neither changes nothing.
ServerPoll(c) ==
    /\ ~crashed
    /\ sv[c].pc = "loop"
    /\ ~(sv[c].active = 1 /\ running) \/ sv[c].recv_cq # <<>>
    /\ \E sok \in Oks(c) :
        sv' = [sv EXCEPT ![c] =
            IF ~(sv[c].active = 1 /\ running)
            THEN [@ EXCEPT !.pc = "cleanup"]
            ELSE LET wc == Head(sv[c].recv_cq)
                     rc == IF wc = "SUCCESS" THEN Rc(sok) ELSE -1
                     reply == Echo(sv[c].client_id, sv[c].recv_buffer)
                 IN  [@ EXCEPT !.recv_cq = Tail(@),
                               !.wc = wc,
                               !.swr = IF rc = 0 THEN Append(@, reply) ELSE @,
                               !.tx = IF rc = 0 THEN Append(@, reply) ELSE @,
                               !.send = IF wc = "SUCCESS" /\ rc < 0
                                        THEN [posted |-> FALSE, polled |-> 0,
                                              status |-> "none", ret |-> -1]
                                        ELSE @,
                               !.rc = rc,
                               !.pc = StepTo(rc, "echo_wait")]]
    /\ UNCHANGED << cfgVars, procVars, tableVars, cl, c2s, s2c, ctls, stls >>

\* The handle after a destroy, dereg or free call at the cleanup label.
Destroy(h) == IF h = "live" THEN "freed" ELSE h

\* The record after the release calls at the cleanup label:
\* secure_rdma_server_100.c lines 459-467, secure_rdma_server.c lines
\* 476-484 (where cm_id is null).
CleanupReleases(r) ==
    IF cfg.variant = "server_100"
    THEN [r EXCEPT !.send_mr = Destroy(@), !.recv_mr = Destroy(@),
                   !.qp = NoQp,
                   !.send_cq_h = Destroy(@), !.recv_cq_h = Destroy(@),
                   !.pd = Destroy(@),
                   !.send_buffer = Destroy(@), !.recv_buffer_h = Destroy(@)]
    ELSE [r EXCEPT !.send_mr = Destroy(@), !.recv_mr = Destroy(@),
                   !.send_buffer = Destroy(@), !.recv_buffer_h = Destroy(@)]

\* The cleanup label destroys an object that an error path has destroyed
\* already (lines 412, 425-427 against lines 462-464).
DoubleDestroy(r) ==
    /\ cfg.variant = "server_100"
    /\ "stale" \in {r.send_cq_h, r.recv_cq_h, r.pd}

Handles == {"ctx", "pd", "send_cq_h", "recv_cq_h", "send_mr", "recv_mr",
            "send_buffer", "recv_buffer_h"}

\* The objects of record r that still exist.
Live(r) ==
    {h \in Handles : r[h] = "live"}
        \cup (IF r.qp.state # "none" THEN {"qp"} ELSE {})

\* client_handler_thread, the cleanup label (lines 455-485): release the
\* resources, close the TLS connection, take the record out of the table
\* under clients_mutex and free it.
ServerCleanup(c) ==
    /\ ~crashed
    /\ sv[c].pc = "cleanup"
    /\ \E ub \in UBOutcomes :
        IF DoubleDestroy(sv[c]) /\ ub = "killed"
        THEN Crash
        ELSE LET i == SlotOf(clients, c)
             IN  /\ leaked' = leaked \cup Live(CleanupReleases(sv[c]))
                 /\ stls' = [stls EXCEPT ![c] = "closed"]
                 /\ clients' = IF i = 0 THEN clients
                               ELSE [clients EXCEPT ![i] = NULL]
                 /\ num_clients' = IF i = 0 THEN num_clients
                                   ELSE num_clients - 1
                 /\ sv' = [sv EXCEPT ![c] = NoServer]
                 /\ UNCHANGED << running, crashed, mpc, shared, sc,
                                 lpc, lconn >>
    /\ UNCHANGED << cfgVars, cl, c2s, s2c, ctls >>

\* ----------------------------------------------------------- shutdown
\* secure_rdma_server_100.c: signal_handler, main, cleanup_server

\* signal_handler, lines 80-85: an interrupt or terminate signal clears the
\* flag.  A listener that sits in accept() is interrupted by it (accept
\* fails, accept_tls_connection returns NULL and the loop goes to its head)
\* or is not (the signal is taken by another thread, or accept is
\* restarted).
Signal ==
    /\ cfg.stop
    /\ ~crashed
    /\ running
    /\ running' = FALSE
    /\ \E intr \in BOOLEAN :
        lpc' = IF intr /\ lpc = "accept" THEN "exited" ELSE lpc
    /\ UNCHANGED << cfgVars, crashed, leaked, mpc, shared, sc, clients,
                    num_clients, lconn, cl, sv, c2s, s2c, ctls, stls >>

\* main, lines 715-728: the loop "while (g_server->running) sleep(1)" ends
\* and cleanup_server is entered.
MainStop ==
    /\ ~crashed
    /\ cfg.variant # "scalable"
    /\ mpc = "run"
    /\ ~running
    /\ mpc' = "join"
    /\ UNCHANGED << cfgVars, running, crashed, leaked, shared, sc, tableVars,
                    cl, sv, c2s, s2c, ctls, stls >>

\* A slot entry that points to a freed record.
Dangling == \E i \in Slots : clients[i] # NULL /\ sv[clients[i]].pc = "none"

\* cleanup_server, lines 642-676: pthread_join on the listener returns; every
\* record in the table is marked inactive; device context, device list,
\* listening socket, TLS context, mutex and the server structure are
\* released.  Marking a freed record writes to freed memory.
MainJoin ==
    /\ ~crashed
    /\ mpc = "join"
    /\ lpc = "exited"
    /\ \E ub \in UBOutcomes :
        IF Dangling /\ ub = "killed"
        THEN Crash
        ELSE /\ sv' = [c \in Conn |->
                        IF sv[c].pc # "none" /\ SlotOf(clients, c) # 0
                        THEN [sv[c] EXCEPT !.active = 0] ELSE sv[c]]
             /\ shared' = {}
             /\ mpc' = "released"
             /\ UNCHANGED << running, crashed, leaked, sc, tableVars, stls >>
    /\ UNCHANGED << cfgVars, cl, c2s, s2c, ctls >>

\* main, line 730: return 0 ends the process and with it every handler
\* thread that is still running.
MainExit ==
    /\ ~crashed
    /\ mpc = "released"
    /\ mpc' = "exited"
    /\ ProcessGone
    /\ UNCHANGED << cfgVars, running, crashed, leaked, shared, sc,
                    cl, c2s, s2c, ctls >>

\* The handler positions whose next statement uses a process-wide object:
\* the device context (lines 378-389, 120), server->running (line 330),
\* clients_mutex and the table (lines 473-480).
SharedUsers == {"create", "ep_send", "loop", "cleanup"}

\* A handler uses a process-wide object that cleanup_server has released
\* and the process is killed for it.  (Where the use goes unnoticed the
\* handler's own step is taken.)
HandlerFault(c) ==
    /\ ~crashed
    /\ mpc = "released"
    /\ sv[c].pc \in SharedUsers
    /\ Crash
    /\ UNCHANGED << cfgVars, cl, c2s, s2c, ctls >>

\* connect_tls_server fails (lines 221-248): nothing listens any more.
ClientConnectFails(c) ==
    /\ cl[c].pc = "hs"
    /\ crashed \/ mpc \in {"released", "exited"}
    /\ ClientGone(c)
    /\ UNCHANGED << cfgVars, procVars, tableVars, sv, c2s, s2c, stls >>

\* server_loop of secure_rdma_server_scalable.c, lines 420-427: the head of
\* the loop and epoll_wait.  With the flag clear the loop ends and main
\* returns (lines 491-498); with it set epoll_wait reports new-connection
\* events.
ScalWait ==
    /\ cfg.variant = "scalable"
    /\ sc.pc = "wait"
    /\ \E n \in 1..MaxBatch :
        IF ~running
        THEN sc' = [sc EXCEPT !.pc = "exited"]
        ELSE /\ sc.attempts < MaxAttempts
             /\ sc.max_clients = MAX_CLIENTS
             /\ sc' = [sc EXCEPT !.pc = "batch", !.nfds = n]
    /\ UNCHANGED << cfgVars, running, crashed, leaked, mpc, shared, tableVars,
                    cl, sv, c2s, s2c, ctls, stls >>

\* The events epoll_wait may report, by the 32 bits of their data: the
\* listening socket carries its descriptor number (data.fd), the socket of
\* a client that handle_new_client has registered carries the slot
\* (data.u32, line 333).
EpollEvents ==
    { [from |-> "listen", data |-> sc.tls_listen_sock] }
        \cup { [from |-> "client", data |-> i] :
                    i \in { k \in SlotIds : sc.clients[k].qp = "live" } }

\* server_loop, line 430: events[i].data.fd == server->tls_listen_sock, a
\* comparison of the 32 bits of data with the descriptor number.
IsListenEvent(ev) == ev.data = sc.tls_listen_sock

\* server_loop, lines 429-446: one reported event.  One taken for the
\* listening socket's: accept and, when accept succeeds, handle_new_client.
\* Any other: nothing is done.
ScalAccept ==
    /\ cfg.variant = "scalable"
    /\ sc.pc = "batch"
    /\ \E ev \in EpollEvents, aok \in BOOLEAN, f \in NewClientFails :
        sc' = [(IF IsListenEvent(ev) /\ aok
                THEN handle_new_client([sc EXCEPT !.open_socks = @ + 1], f)
                ELSE sc) EXCEPT
                    !.event = [from |-> ev.from, data |-> ev.data,
                               taken_as |-> IF IsListenEvent(ev)
                                            THEN "listen" ELSE "client"],
                    !.attempts = @ + 1,
                    !.nfds = @ - 1,
                    !.pc = IF sc.nfds = 1 THEN "wait" ELSE "batch"]
    /\ UNCHANGED << cfgVars, running, crashed, leaked, mpc, shared, tableVars,
                    cl, sv, c2s, s2c, ctls, stls >>

\* The connection state of the design that a handler position stands for.
Phase(pc) ==
    CASE pc \in {"created", "psn_read", "psn_wblk"} -> "PSN_EXCHANGE"
      [] pc \in {"create", "ep_send", "ep_wblk", "ep_recv",
                 "setup_qp"} -> "RDMA_SETUP"
      [] pc \in {"post_first", "welcome_wait", "loop", "echo_wait"} -> "CONNECTED"
      [] pc = "cleanup" -> "CLOSING"
      [] OTHER -> "NONE"

\* ------------------------------------------------------ the whole system

ClientBringUp(c) ==
    \/ ClientConnectFails(c)
    \/ ClientPsnWrite(c)
    \/ ClientWriteDone(c)
    \/ ClientPsnRead(c)
    \/ ClientConnectRdma(c)
    \/ ClientEpRecv(c)
    \/ ClientEpSend(c)
    \/ ClientTruncated(c)
    \/ ClientSetupQp(c)
    \/ ClientPostInit(c)
    \/ ClientReceive(c)
    \/ ClientSendDone(c)

ClientInput(c) ==
    \/ ClientConnect(c)
    \/ ClientSend(c)
    \/ ClientClose(c)

Handler(c) ==
    \/ ServerPsnExchange(c)
    \/ ServerWriteDone(c)
    \/ ServerCreate(c)
    \/ ServerEpSend(c)
    \/ ServerEpRecv(c)
    \/ ServerSetupQp(c)
    \/ ServerStart(c)
    \/ ServerSendDone(c)
    \/ ServerPoll(c)
    \/ ServerCleanup(c)
    \/ HandlerFault(c)

Transport(c) ==
    \/ DeliverToServer(c)
    \/ WriteToServer(c)
    \/ DeliverToClient(c)
    \/ SendFails(c)

Listener ==
    \/ ListenerStart
    \/ \E c \in Conn : Admit(c)
    \/ Spawn
    \/ Detach

Main ==
    \/ MainStop
    \/ MainJoin
    \/ MainExit

Scalable ==
    \/ ScalWait
    \/ ScalAccept

Next ==
    \/ \E c \in Conn : ClientInput(c)
    \/ \E c \in Conn : ClientBringUp(c)
    \/ \E c \in Conn : Handler(c)
    \/ \E c \in Conn : Transport(c)
    \/ Listener
    \/ Main
    \/ Scalable
    \/ Signal

\* One connection, both server sources, every channel capacity, every draw
\* and padding content.
OneConn ==
    Config({"server_100"}, 0..ChanCap, {1}, Draws, PadOctets,
           [c \in Conn |-> MaxMsgs], Conn, {TRUE})
        \cup Config({"server"}, 0..ChanCap, {1}, Draws, PadOctets,
                    [c \in Conn |-> MaxMsgs], Conn, {FALSE})

\* The scalable server: no client of this repository talks to it.
ScalableOnly ==
    Config({"scalable"}, {0}, {}, Draws, PadOctets, [c \in Conn |-> 0], {},
           {TRUE})

InitOne == InitWith(OneConn \cup ScalableOnly)

Spec == InitOne /\ [][Next]_vars

\* The scheduler runs every thread that can take a step, the listener
\* included, and the transport finishes every posted send.  Nothing makes a
\* user start a client, type a message or quit.
Fairness ==
    /\ \A c \in Conn : WF_vars(Handler(c))
    /\ \A c \in Conn : WF_vars(ClientBringUp(c))
    /\ \A c \in Conn : WF_vars(Transport(c))
    /\ WF_vars(Listener)
    /\ WF_vars(Main)
    /\ WF_vars(Scalable)

FairOne == InitOne /\ [][Next]_vars /\ Fairness

\* A full table and one connection more, on secure_rdma_server_100.c, over
\* a TLS stream that buffers nothing (every write waits for its reader).
\* Connection 1 sends data and suffers faults; the others only connect and
\* quit.
FullTable ==
    Config({"server_100"}, {0}, Conn, {<<0, 0, 0, 1>>}, {0},
           [c \in Conn |-> 0], {1}, {FALSE})

InitSlots == InitWith(FullTable \cup OneConn \cup ScalableOnly)

SpecSlots == InitSlots /\ [][Next]_vars

\* ------------------------------------------------------------ properties

Sides(c) == {cl[c], sv[c]}

\* C1: on either side of every connection, a QP that has reached RTR has
\* rq_psn equal to the PSN received from the peer (remote_psn), a QP that
\* has reached RTS has sq_psn equal to the local PSN, and rq_psn is not the
\* local PSN where the two PSNs differ.
C1_PsnInstalled ==
    \A c \in Conn : \A r \in Sides(c) :
        /\ r.qp.state \in {"RTR", "RTS"} =>
                /\ r.qp.rq_psn = r.remote_psn
                /\ (r.local_psn # r.remote_psn => r.qp.rq_psn # r.local_psn)
        /\ r.qp.state = "RTS" => r.qp.sq_psn = r.local_psn

\* Both sides of a connection in RTS with different PSNs.
C1_Witness ==
    \E c \in Conn :
        /\ cl[c].qp.state = "RTS"
        /\ sv[c].qp.state = "RTS"
        /\ cl[c].local_psn # cl[c].remote_psn

\* The PSN exchange has returned success on this side.
ClientPsnDone(c) == Len(cl[c].log) >= 2 /\ cl[c].log[2] = "psn_r"

ServerPsnDone(c) == Len(sv[c].log) >= 2 /\ sv[c].log[2] = "psn_w"

\* C2: when the PSN exchange has succeeded on both sides of a connection,
\* each side's remote_psn is the other's local_psn; and when both QPs are in
\* RTS each side's rq_psn is its peer's sq_psn.
C2_PsnAgreement ==
    \A c \in Conn :
        /\ ClientPsnDone(c) /\ ServerPsnDone(c) =>
                /\ sv[c].remote_psn = cl[c].local_psn
                /\ cl[c].remote_psn = sv[c].local_psn
        /\ cl[c].qp.state = "RTS" /\ sv[c].qp.state = "RTS" =>
                /\ cl[c].qp.rq_psn = sv[c].qp.sq_psn
                /\ sv[c].qp.rq_psn = cl[c].qp.sq_psn

\* Both QPs in RTS with a client PSN whose octets differ from one another.
C2_Witness ==
    \E c \in Conn :
        /\ cl[c].qp.state = "RTS"
        /\ sv[c].qp.state = "RTS"
        /\ cl[c].local_psn > 65535
        /\ cl[c].local_psn # sv[c].local_psn

IsPrefix(a, b) == Len(a) <= Len(b) /\ a = SubSeq(b, 1, Len(a))

\* The order of the bring-up events on each side.
ClientOrder == << "psn_w", "psn_r", "ep_r", "ep_w", "INIT", "RTR", "RTS", "post" >>

ServerOrder == << "psn_r", "psn_w", "ep_w", "ep_r", "INIT", "RTR", "RTS", "post" >>

\* C3: on each side the bring-up events happen in the order PSN exchange,
\* endpoint exchange, INIT, RTR, RTS, first posted work request, none of
\* them skipped or repeated; and a side has work requests posted only when
\* its QP has reached RTS.
C3_BringUpOrder ==
    \A c \in Conn :
        /\ IsPrefix(cl[c].log, ClientOrder)
        /\ IsPrefix(sv[c].log, ServerOrder)
        /\ \A r \in Sides(c) :
                (r.posted > 0 \/ r.swr # <<>>) => r.qp.state \in {"RTS", "ERR"}

\* Both sides have gone through the whole bring-up and posted.
C3_Witness ==
    \E c \in Conn :
        /\ cl[c].log = ClientOrder
        /\ sv[c].log = ServerOrder
        /\ cl[c].posted > 0
        /\ sv[c].swr # <<>>

\* A side waits for the other on the TLS stream: in SSL_read with nothing
\* to read, or in SSL_write with the stream full.
ClientWaits(c) ==
    /\ stls[c] = "open"
    /\ \/ cl[c].pc \in {"psn_read", "ep_recv"} /\ s2c[c] = <<>>
       \/ cl[c].pc \in {"psn_wblk", "ep_wblk"} /\ Blocked(c2s[c])

ServerWaits(c) ==
    /\ ctls[c] = "open"
    /\ \/ sv[c].pc \in {"psn_read", "ep_recv"} /\ c2s[c] = <<>>
       \/ sv[c].pc \in {"psn_wblk", "ep_wblk"} /\ Blocked(s2c[c])

NoMutualBlock == \A c \in Conn : ~(ClientWaits(c) /\ ServerWaits(c))

ExchangeStarted(c) == cl[c].pc = "psn_write" /\ sv[c].pc # "none"

\* Both sides are through the PSN and the endpoint exchange.
ExchangeDone(c) ==
    /\ IsPrefix(SubSeq(ClientOrder, 1, 4), cl[c].log)
    /\ IsPrefix(SubSeq(ServerOrder, 1, 4), sv[c].log)

SideFailed(c) == crashed \/ cl[c].pc = "idle" \/ sv[c].pc \in {"cleanup", "none"}

\* C4: no state has both sides of a connection waiting for each other on
\* the TLS stream, whatever the stream buffers; and an exchange that has
\* started is completed by both sides unless a side fails.
C4_NoDeadlock ==
    /\ []NoMutualBlock
    /\ \A c \in Conn : ExchangeStarted(c) ~> (ExchangeDone(c) \/ SideFailed(c))

\* The exchange completed over a stream that buffers nothing.
C4_Witness == \E c \in Conn : ExchangeDone(c) /\ cfg.cap = 0

\* The connections that have a record on the server.
LiveConns == {c \in Conn : sv[c].pc # "none"}

\* C5: no slot is held by two live connections (every live connection is in
\* the slot its client_id names, and no record is in two slots), and there
\* are never more live connections than the table has slots.
C5_SlotsDistinct ==
    /\ \A i \in Slots, k \in Slots :
            i # k /\ clients[i] # NULL => clients[i] # clients[k]
    /\ \A c \in LiveConns :
            sv[c].client_id \in Slots /\ clients[sv[c].client_id] = c
    /\ Cardinality(LiveConns) <= MAX_CLIENTS
    /\ num_clients <= MAX_CLIENTS

\* The table is full of live connections after the handler of another
\* connection has returned and given up its slot.
C5_Witness ==
    /\ Cardinality(LiveConns) = MAX_CLIENTS
    /\ \A i \in Slots : clients[i] \in LiveConns
    /\ \E c \in Conn \ LiveConns : ClientPsnDone(c)

\* The listener answers connection c's attempt while the table is full of
\* live connections.
AnsweredAtCapacity(c) ==
    /\ Cardinality(LiveConns) = MAX_CLIENTS
    /\ cl[c].pc = "hs"
    /\ cl'[c].pc # "hs"

\* C6: an attempt answered while max_clients connections are live is
\* rejected: its TLS session is not left open, it gets no record, slot or
\* handler, and the table, the count and every existing record are as they
\* were.
C6_RejectAtCapacity ==
    [][\A c \in Conn :
        AnsweredAtCapacity(c) =>
            /\ stls'[c] # "open"
            /\ sv' = sv
            /\ clients' = clients
            /\ num_clients' = num_clients
            /\ lpc' # "spawn"
            /\ lconn' = lconn]_vars

\* A connection that has just been rejected at a full table: its client is
\* through the handshake, the server has closed the session and holds no
\* record or slot for it.
C6_Witness ==
    \E c \in Conn :
        /\ Cardinality(LiveConns) = MAX_CLIENTS
        /\ c \notin LiveConns
        /\ \A i \in Slots : clients[i] \in LiveConns
        /\ cl[c].pc = "psn_write"
        /\ ctls[c] = "open"
        /\ stls[c] = "closed"

\* Every slot holds a connection whose handler is in its message loop.
AllConnected ==
    \A i \in Slots : clients[i] # NULL /\ sv[clients[i]].pc = "loop"

\* Something can still end the loop of c's handler: a receive completion is
\* queued, a send of either side is outstanding, or the server is stopping.
Wakeable(c) ==
    \/ sv[c].recv_cq # <<>>
    \/ sv[c].swr # <<>>
    \/ cl[c].swr # <<>>
    \/ ~running

\* The client of c has closed and its handler sits in a loop that nothing
\* can end.
Stuck(c) == sv[c].pc = "loop" /\ cl[c].pc = "idle" /\ ~Wakeable(c)

\* C7: when every slot holds a connected connection and the client of one
\* of them has closed, that connection's handler is on its way to release
\* the slot: what ends its loop has arrived or can still arrive.
C7_SlotReleased ==
    \A c \in Conn :
        AllConnected /\ SlotOf(clients, c) # 0 /\ cl[c].pc = "idle" => Wakeable(c)

\* A handler that is stuck stays stuck for as long as the server process
\* lives, and its slot stays taken.
StuckForever ==
    [][\A c \in Conn :
        Stuck(c) => (Stuck(c)' /\ SlotOf(clients', c) # 0) \/ crashed']_vars

\* The rank of a connection state in the design's order.
Rank(ph) ==
    CASE ph = "PSN_EXCHANGE" -> 1
      [] ph = "RDMA_SETUP" -> 2
      [] ph = "CONNECTED" -> 3
      [] ph = "CLOSING" -> 4
      [] OTHER -> 0

\* C8: while a record exists its state never moves backward; a step that
\* fails, or that finds a completion without success, leaves the handler at
\* the cleanup label; and from there the handler only frees the record.
C8_ForwardOnly ==
    [][\A c \in Conn :
        /\ sv[c].pc # "none" /\ sv'[c].pc # "none" =>
                Rank(Phase(sv'[c].pc)) >= Rank(Phase(sv[c].pc))
        /\ sv'[c].pc # "none" /\ sv'[c] # sv[c]
                /\ (sv'[c].rc < 0 \/ sv'[c].wc \notin {"none", "SUCCESS"}) =>
                sv'[c].pc = "cleanup"
        /\ sv[c].pc = "cleanup" => sv'[c].pc \in {"cleanup", "none"}]_vars

\* A handler at the cleanup label after a send completed without success.
C8_Witness ==
    \E c \in Conn :
        /\ sv[c].pc = "cleanup"
        /\ sv[c].wc = "RETRY_EXC_ERR"
        /\ sv[c].rc < 0

\* C9: after a handler has returned, nothing that belonged to its
\* connection still exists.
C9_AllReleased == leaked = {}

\* C10: the step that tears down one connection changes no other
\* connection's record, TLS session or slot.
C10_Isolation ==
    [][\A c \in Conn :
        sv[c].pc = "cleanup" /\ sv'[c] # sv[c] =>
            \A d \in Conn \ {c} :
                /\ sv'[d] = sv[d]
                /\ stls'[d] = stls[d]
                /\ \A i \in Slots : clients[i] = d => clients'[i] = d]_vars

\* ---------------------------------------------------------------- C11
\* The control-plane records and their sizes, by the step that reads them.
RecordSize(pc) == IF pc = "psn_read" THEN SizeofPsn ELSE SizeofParams

\* The handler of c is about to read a record of which the stream holds
\* at least one octet and fewer than all.
TruncatedAhead(c) ==
    /\ sv[c].pc \in {"psn_read", "ep_recv"}
    /\ c2s[c] # <<>>
    /\ Len(Head(c2s[c])) \in 1..(RecordSize(sv[c].pc) - 1)

\* C11: a handler that reads a truncated PSN or endpoint record gets an
\* error, keeps the remote PSN and the remote endpoint record it held, goes
\* to its cleanup without any transition of its QP, and the writer's
\* record is as it was.
C11_TruncatedRead ==
    [][\A c \in Conn :
        (TruncatedAhead(c) /\ ~crashed /\ c2s'[c] # c2s[c]) =>
            /\ sv'[c].rc < 0
            /\ sv'[c].remote_psn = sv[c].remote_psn
            /\ sv'[c].remote_params = sv[c].remote_params
            /\ sv'[c].qp = sv[c].qp
            /\ sv'[c].pc = "cleanup"
            /\ cl'[c] = cl[c]]_vars

\* A handler at its cleanup after the read of a truncated endpoint record,
\* with the PSN it had read before still in place.
C11_Witness ==
    \E c \in Conn :
        /\ sv[c].pc = "cleanup"
        /\ sv[c].rc < 0
        /\ sv[c].nread = SizeofParams - 1
        /\ sv[c].remote_psn # 0
        /\ sv[c].remote_params = NoParams
        /\ ctls[c] = "closed"
        /\ cl[c] = NewClient
        /\ c2s[c] = <<>>
        /\ cfg.variant = "server_100"

\* ---------------------------------------------------------------- C12
\* Event e is in the bring-up log.
Logged(log, e) == \E i \in DOMAIN log : log[i] = e

\* C12: receive_rdma_params of what send_rdma_params wrote gives back the
\* record that was sent, field by field: while the sender lives, the
\* endpoint record a side has read is the sender's local record (QP
\* number, LID, GID, PSN, rkey, address), whatever the padding octets were.
C12_ParamsRoundTrip ==
    \A c \in Conn :
        /\ (Logged(sv[c].log, "ep_r") /\ cl[c].pc # "idle")
                => sv[c].remote_params = ClientLocalParams(c)
        /\ (Logged(cl[c].log, "ep_r") /\ sv[c].pc # "none" /\ ~crashed)
                => cl[c].remote_params = ServerLocalParams(c)

\* Both sides have read the other's record, sent with padding octets that
\* may be nonzero, and carrying a PSN of more than two octets.
C12_Witness ==
    \E c \in Conn :
        /\ Logged(sv[c].log, "ep_r") /\ Logged(cl[c].log, "ep_r")
        /\ sv[c].remote_params = ClientLocalParams(c)
        /\ cl[c].remote_params = ServerLocalParams(c)
        /\ sv[c].remote_params.psn > 65535
        /\ cl[c].remote_params.psn > 65535
        /\ sv[c].remote_params.gid = PortGid("c", c)
        /\ sv[c].remote_params.remote_addr = BufAddr("c", c)
        /\ 255 \in cfg.pads

\* ---------------------------------------------------------------- C13
\* The slots whose record holds a chunk of the buffer pool.
Holders == { i \in SlotIds : sc.clients[i].send_buffer >= 0 }

\* The chunk ids on the free list.
FreeIds ==
    { sc.buffer_pool.free_list[i] : i \in 0..(sc.buffer_pool.free_count - 1) }

\* C13: for the buffer pool of the scalable server, under any interleaving
\* of pool_alloc and pool_free: free_count stays within 0..num_chunks, the
\* chunks in flight are the successful allocations minus the frees, no
\* chunk is held by two holders, and no chunk id is twice (or both held and)
\* on the free list.
C13_PoolConsistent ==
    cfg.variant = "scalable" =>
        /\ sc.buffer_pool.free_count \in 0..NumChunks
        /\ Cardinality(Holders) = sc.allocs - sc.frees
        /\ NumChunks - sc.buffer_pool.free_count = sc.allocs - sc.frees
        /\ \A i, j \in Holders :
                i # j => sc.clients[i].send_buffer # sc.clients[j].send_buffer
        /\ Cardinality(FreeIds) = sc.buffer_pool.free_count
        /\ \A i \in Holders : sc.clients[i].send_buffer \notin FreeIds

\* Two clients hold chunks after an allocation between theirs was rolled
\* back by pool_free.
C13_Witness ==
    /\ cfg.variant = "scalable"
    /\ Cardinality(Holders) = 2
    /\ sc.allocs = 3
    /\ sc.frees = 1

\* ---------------------------------------------------------------- C14
\* C14: once the running flag is cleared no further TLS session is
\* admitted to a slot and no new handler is started: from a state with the
\* flag cleared, no step gives a connection a record, a slot or a handler
\* thread, and the scalable server takes no further client.
C14_NoAdmissionAfterStop ==
    [][~running =>
        /\ \A c \in Conn :
            /\ sv[c].pc = "none" => sv'[c].pc = "none"
            /\ sv[c].pc = "created" => sv'[c].pc \in {"created", "none"}
        /\ \A i \in Slots : clients[i] = NULL => clients'[i] = NULL
        /\ sc'.total_connections = sc.total_connections]_vars

\* ---------------------------------------------------------------- C15
\* The server process has ended: main has returned, server_loop of the
\* scalable server has been left, or the process was killed.
ProcessEnded ==
    IF cfg.variant = "scalable" THEN sc.pc = "exited"
    ELSE mpc = "exited" \/ crashed

\* C15: after a termination signal the supervisor always stops: the
\* acceptor leaves its loop, the join on it returns and the process ends,
\* also when no client connects after the signal.
C15_SupervisorStops == ~running ~> ProcessEnded

\* ---------------------------------------------------------------- C16
\* The handler of c runs.
HandlerRuns(c) == sv[c].pc \notin {"none", "created"}

\* The handler of c has returned while the process lives on.
Returned(c) == sv[c].pc = "none" /\ mpc # "exited" /\ ~crashed

\* C16: after the running flag is cleared every live handler eventually
\* observes it and exits by its own return, whatever step it is in.
C16_HandlersExit ==
    \A c \in Conn : (~running /\ HandlerRuns(c)) ~> Returned(c)

\* ---------------------------------------------------------------- C17
\* C17: the process-wide resources (TLS context, listening socket, device
\* context and list, the table's mutex, the server structure) are released
\* only after every handler has finished its teardown: while a handler runs,
\* every resource acquired at initialisation is still held.
C17_SharedOutliveHandlers ==
    (~crashed /\ \E c \in Conn : HandlerRuns(c)) => shared = SharedOf(cfg.variant)

\* ---------------------------------------------------------------- C18
\* No client has connected, or tried to, since the server started.
NoClientEver ==
    /\ \A c \in Conn : cl[c].pc = "idle" /\ ctls[c] = "none"
    /\ sc.attempts = 0

\* C18: when the server is started and stopped with no client in between,
\* it ends with every resource acquired at initialisation released.
C18_StartStopReleasesAll ==
    (NoClientEver /\ ProcessEnded /\ ~crashed) => shared = {}

\* ---------------------------------------------------------------- C19
\* The reply the design calls for: the prefix with the handler's slot id,
\* followed by the whole message.
ExpectedReply(id, msg) == << "echo", id, msg[2], EchoPrefixLen(id) + msg[3] >>

\* C19: for the messages a handler has received in its message loop, the
\* replies it has posted are, one for one and in the order of arrival,
\* "Server echo [Client N]: " followed by the message, N its own slot id.
C19_EchoReplies ==
    \A c \in Conn :
        /\ Len(sv[c].tx) <= Len(sv[c].rx)
        /\ \A i \in DOMAIN sv[c].tx :
                sv[c].tx[i] = ExpectedReply(SlotOf(clients, c), sv[c].rx[i])

\* ---------------------------------------------------------------- C20
\* C20: a send (send_message on either side, rdma_write_to_server on the
\* client) returns success exactly when the work request was posted and
\* one completion with status SUCCESS was obtained for it; a failed post,
\* a negative poll result or any other status gives failure.
C20_SendResult ==
    \A c \in Conn : \A r \in Sides(c) :
        r.send # NoSend =>
            (r.send.ret = 0 <=>
                (r.send.posted /\ r.send.polled = 1 /\ r.send.status = "SUCCESS"))

\* ---------------------------------------------------------------- C21
\* This step enters connection c into slot i of the table.
Admitted(c, i) == clients[i] # c /\ clients'[i] = c

\* The slot ids on the free stack of the scalable server.
FreeSlotIds == { sc.free_slots[k] : k \in 0..(sc.free_slot_count - 1) }

\* This step of the scalable server admits a client to slot s.
ScalAdmitted(s) ==
    /\ sc.clients[s].active = 0
    /\ sc'.clients[s].active = 1
    /\ sc'.total_connections = sc.total_connections + 1

\* The admission takes the lowest entry of the table that is NULL.
LowestNull ==
    \A c \in Conn, i \in Slots :
        Admitted(c, i) => \A k \in 1..(i - 1) : clients[k] # NULL

\* No lower slot than the one taken is held for a client that has closed
\* and whose handler nothing will end: such a client's slot is free again.
ClosedSlotsReused ==
    \A c \in Conn, i \in Slots :
        Admitted(c, i) =>
            \A k \in 1..(i - 1) : clients[k] = NULL \/ ~Stuck(clients[k])

\* The scalable server hands out the minimum of its free slot ids.
ScalLowestFree ==
    \A s \in SlotIds :
        ScalAdmitted(s) => \A f \in FreeSlotIds : s <= f

\* C21: admission always assigns the smallest free slot id: the lowest
\* entry of the table not in use, where the slot of a client that has
\* disconnected counts as free again (a client that disconnects from an
\* otherwise idle server and reconnects gets slot 1 again); the scalable
\* server hands out the minimum of its free ids.
C21_SmallestFreeSlot ==
    [][LowestNull /\ ClosedSlotsReused /\ ScalLowestFree]_vars

\* ---------------------------------------------------------------- C22
\* One healthy client against secure_rdma_server_100, with the random words
\* taken from the edges of the range.
EdgeDrawConn ==
    Config({"server_100"}, {ChanCap}, {1}, EdgeDraws, {0},
           [c \in Conn |-> 0], {}, {FALSE})

InitDraws == InitWith(EdgeDrawConn \cup OneConn \cup ScalableOnly)

SpecDraws == InitDraws /\ [][Next]_vars

\* Bit 0 set and bits 24 to 31 clear.
ValidPsn(v) == v \in 1..(16777216 - 1) /\ v % 2 = 1

\* C22: for every random word, generate_secure_psn returns an odd value in
\* 1..2^24-1, never zero: so for every word the run may draw, and for every
\* PSN a side has drawn and written to its peer.
C22_PsnRange ==
    /\ \A d \in cfg.entropy : ValidPsn(generate_secure_psn(d))
    /\ \A c \in Conn :
        /\ Logged(cl[c].log, "psn_w") => ValidPsn(cl[c].local_psn)
        /\ Logged(sv[c].log, "psn_w") => ValidPsn(sv[c].local_psn)
        /\ Logged(cl[c].log, "psn_r") => ValidPsn(cl[c].remote_psn)
        /\ Logged(sv[c].log, "psn_r") => ValidPsn(sv[c].remote_psn)

\* Both sides hold PSNs drawn from the all-zero word and the all-ones word.
C22_Witness ==
    \E c \in Conn :
        /\ Logged(cl[c].log, "psn_r") /\ Logged(sv[c].log, "psn_w")
        /\ cl[c].local_psn = 1
        /\ sv[c].local_psn = 16777215
        /\ cl[c].remote_psn = 16777215
        /\ <<0, 0, 0, 0>> \in cfg.entropy

\* ---------------------------------------------------------------- C23
\* C23: in the scalable server, whatever the MAX_CLIENTS environment
\* variable holds, the max_clients in effect after init_server lies in
\* 1..10000, and is 1000 when the variable is unset.
C23_MaxClientsInRange ==
    (cfg.variant = "scalable" /\ sc.pc # "init_failed") =>
        /\ sc.max_clients \in 1..10000
        /\ ~sc.env.set => sc.max_clients = MAX_CLIENTS_DEFAULT

\* ---------------------------------------------------------------- C24
\* The wire form of the design: the six fields in order, nothing between.
PackedParams(p) ==
    htonl(p.qp_num) \o htons(p.lid) \o p.gid
        \o htonl(p.psn) \o htonl(p.rkey) \o htobe64(p.remote_addr)

\* The message this step has put on stream q, <<>> when it has put none.
Written(q, qn) == IF Len(qn) = Len(q) + 1 THEN qn[Len(qn)] ELSE <<>>

\* The repository's client writes (not a foreign peer cutting its record
\* short).
ClientWrites(c, pc) == cl[c].pc = pc /\ cl'[c].pc # "idle"

\* Every PSN message written is 4 octets.
PsnMessageSize ==
    \A c \in Conn :
        /\ (ClientWrites(c, "psn_write") /\ Written(c2s[c], c2s'[c]) # <<>>)
                => Len(Written(c2s[c], c2s'[c])) = 4
        /\ (sv[c].pc = "psn_read" /\ Written(s2c[c], s2c'[c]) # <<>>)
                => Len(Written(s2c[c], s2c'[c])) = 4

\* C24: the endpoint descriptor written to the TLS stream is exactly 34
\* octets: qp_num (4), lid (2), gid (16), psn (4), rkey (4), remote_addr
\* (8) in that order with no padding octets; and each PSN message is
\* exactly 4 octets.
C24_WireLayout ==
    [][/\ PsnMessageSize
       /\ \A c \in Conn :
            /\ (ClientWrites(c, "ep_send") /\ Written(c2s[c], c2s'[c]) # <<>>)
                    => /\ Len(Written(c2s[c], c2s'[c])) = 34
                       /\ Written(c2s[c], c2s'[c]) = PackedParams(ClientLocalParams(c))
            /\ (sv[c].pc = "ep_send" /\ Written(s2c[c], s2c'[c]) # <<>>)
                    => /\ Len(Written(s2c[c], s2c'[c])) = 34
                       /\ Written(s2c[c], s2c'[c]) = PackedParams(ServerLocalParams(c))]_vars


\* ------------------------------------------------------------------ C25
\* The lock, TLS and verbs calls of a step, in the order of the source.  A
\* call is a pair: what it is ("lock", "unlock", "tls", "verbs") and the
\* mutex or the function.

\* tls_listener_thread, lines 496-538: accept, then the admission under
\* clients_mutex; a rejected connection (table full, or no memory) is closed
\* after the unlock.
tls_listener_calls(rejected) ==
    << <<"tls", "accept_tls_connection">>, <<"lock", "clients_mutex">>,
       <<"unlock", "clients_mutex">> >>
        \o (IF rejected THEN << <<"tls", "close_tls_connection">> >> ELSE <<>>)

\* client_handler_thread, the cleanup label, lines 455-483.
cleanup_calls ==
    << <<"verbs", "ibv_dereg_mr">>, <<"verbs", "ibv_dereg_mr">>,
       <<"verbs", "ibv_destroy_qp">>, <<"verbs", "ibv_destroy_cq">>,
       <<"verbs", "ibv_destroy_cq">>, <<"verbs", "ibv_dealloc_pd">>,
       <<"tls", "close_tls_connection">>, <<"lock", "clients_mutex">>,
       <<"unlock", "clients_mutex">> >>

\* handle_new_client with release_client_slot called from inside pool_free's
\* critical section.
handle_new_client_nested(srv, f) ==
    LET slot == << <<"lock", "clients_mutex">>, <<"unlock", "clients_mutex">> >>
        g    == get_free_client_slot(srv)
    IN  IF g.slot < 0 THEN slot
        ELSE IF pool_alloc(g.srv.buffer_pool).id < 0
        THEN slot \o << <<"lock", "pool">>, <<"unlock", "pool">> >> \o slot
        ELSE slot \o << <<"lock", "pool">>, <<"unlock", "pool">> >>
                  \o (IF f = "none" THEN << <<"verbs", "ibv_create_qp">> >>
                      ELSE << <<"verbs", "ibv_create_qp">>, <<"lock", "pool">> >>
                               \o slot \o << <<"unlock", "pool">> >>)

\* handle_new_client of secure_rdma_server_scalable.c, lines 292-351, with
\* get_free_client_slot, release_client_slot, pool_alloc and pool_free
\* (lines 166-218), each of which locks and unlocks its own mutex.
handle_new_client_calls(srv, f) ==
    LET slot == << <<"lock", "clients_mutex">>, <<"unlock", "clients_mutex">> >>
        pool == << <<"lock", "pool">>, <<"unlock", "pool">> >>
        g    == get_free_client_slot(srv)
    IN  IF g.slot < 0 THEN slot
        ELSE IF pool_alloc(g.srv.buffer_pool).id < 0
        THEN slot \o pool \o slot
        ELSE slot \o pool \o << <<"verbs", "ibv_create_qp">> >>
                  \o (IF f = "qp" THEN pool \o slot
                      ELSE IF f = "epoll"
                      THEN << <<"verbs", "ibv_destroy_qp">> >> \o pool \o slot
                      ELSE <<>>)

\* The mutexes held just before the i-th call of a sequence.
HeldBefore(calls, i) ==
    { m \in {"clients_mutex", "pool"} :
        Cardinality({ j \in 1..(i - 1) : calls[j] = <<"lock", m>> })
            > Cardinality({ j \in 1..(i - 1) : calls[j] = <<"unlock", m>> }) }

WellLocked(calls) ==
    \A i \in 1..Len(calls) :
        /\ calls[i][1] = "lock" => HeldBefore(calls, i) = {}
        /\ calls[i][1] \in {"tls", "verbs"}
                => "clients_mutex" \notin HeldBefore(calls, i)

\* C25: in every step that takes a lock (the listener's admission, a
\* handler's cleanup, the scalable server's handle_new_client) no lock is
\* taken while another is held, and no TLS or verbs call is made while the
\* slot-table lock is held.
C25_LockDiscipline ==
    [][/\ \A c \in Conn :
            /\ (lpc = "accept" /\ ctls[c] # "open" /\ ctls'[c] = "open")
                    => WellLocked(tls_listener_calls(lpc' # "spawn"))
            /\ (sv[c].pc = "cleanup" /\ sv'[c] = NoServer)
                    => WellLocked(cleanup_calls)
       /\ (cfg.variant = "scalable" /\ sc.pc = "batch")
            => \A f \in NewClientFails :
                    WellLocked(handle_new_client_calls(sc, f))]_vars

\* The scalable server has given a buffer back and released the slot: both
\* locks were taken, one after the other, in one call of handle_new_client.
C25_Witness ==
    cfg.variant = "scalable" /\ sc.frees > 0 /\ sc.allocs > 0


\* ------------------------------------------------------------------ C26
\* A message of the server is at the client's connected QP.
ArrivesAtClient(c) ==
    /\ sv[c].swr # <<>>
    /\ Deliverable(sv[c], cl[c], QpNum("c", c))

\* A send of the client is at the server's connected QP.
ArrivesAtServer(c) ==
    /\ cl[c].swr # <<>>
    /\ Head(cl[c].swr)[1] = "send"
    /\ Deliverable(cl[c], sv[c], QpNum("s", c))

\* C26: whenever a message sent by the peer arrives at a connected QP, at
\* least one receive work request is posted on that QP.
C26_ReceivePosted ==
    \A c \in Conn :
        /\ ArrivesAtClient(c) => cl[c].posted > 0
        /\ ArrivesAtServer(c) => sv[c].posted > 0


\* ------------------------------------------------------------------ C27
\* The listener's pthread_create has failed in this step.
SpawnFailed == lpc = "spawn" /\ lpc' = "detach" /\ sv'[lconn] = NoServer

\* C27: when creating the handler thread fails the connection's slot is
\* released and the live count decremented, and no non-empty entry of the
\* slot table ever refers to a freed record.
C27_NoDanglingSlot ==
    [][/\ SpawnFailed => /\ SlotOf(clients', lconn) = 0
                         /\ num_clients' = num_clients - 1
       /\ ~Dangling']_vars


\* ------------------------------------------------------------------ C28
\* C28: no handler reaches its cleanup label holding the pointer of a
\* protection domain, completion queue, queue pair or memory region that an
\* error path has destroyed already, so that no such object is destroyed
\* twice.
C28_DestroyedOnce ==
    \A c \in Conn : sv[c].pc = "cleanup" => ~DoubleDestroy(sv[c])


\* ------------------------------------------------------------------ C29
\* Completion queues are named by a pair.

\* #define WORKER_THREADS 4: the number of shared completion queues of the
\* scalable server (num_cqs).
WORKER_THREADS == 4

\* create_client_qp of the scalable server: send and receive completions of
\* a connection both go to shared_cqs[client_id % num_cqs].
create_client_qp(client_id) == << "shared", client_id % WORKER_THREADS >>

\* Every queue pair reports to the shared queue of its connection number,
\* as in the scalable server.
CqOfShared(variant, c, kind) == create_client_qp(c)

\* The completion queue to which the completions of connection c's work
\* requests of a kind ("send", "recv") go.  client_handler_thread makes two
\* queues of its own with ibv_create_cq and creates the QP on them.
CqOf(variant, c, kind) ==
    IF variant = "scalable" THEN create_client_qp(c) ELSE << kind, c >>

\* The handler of connection c is polling, or about to poll, for a
\* completion of this kind.
Polls(c, kind) ==
    IF kind = "send" THEN sv[c].pc \in {"welcome_wait", "echo_wait"}
    ELSE sv[c].pc = "loop"

SentPsnIs(q, qn, v) ==
    Written(q, qn) # <<>> => DecodeParams(Written(q, qn)).psn = v

\* C30: the psn field of every endpoint descriptor sent is the sender's
\* local_psn of the PSN exchange, and on every side whose QP has reached RTR
\* the psn field of the descriptor received is the remote_psn of that
\* exchange.
C30_DescriptorPsn ==
    [][\A c \in Conn :
        /\ ClientWrites(c, "ep_send")
                => SentPsnIs(c2s[c], c2s'[c], cl[c].local_psn)
        /\ sv[c].pc = "ep_send"
                => SentPsnIs(s2c[c], s2c'[c], sv[c].local_psn)
        /\ \A r \in Sides(c)' :
                r.qp.state \in {"RTR", "RTS"} => r.remote_params.psn = r.remote_psn]_vars

\* Both sides have reached RTS on descriptors that carry two different PSNs.
C30_Witness ==
    \E c \in Conn :
        /\ cl[c].qp.state = "RTS" /\ sv[c].qp.state = "RTS"
        /\ cl[c].remote_params.psn = sv[c].local_psn
        /\ sv[c].remote_params.psn = cl[c].local_psn
        /\ cl[c].remote_params.psn # sv[c].remote_params.psn


\* ------------------------------------------------------------------ C31
\* One connection whose peer writes a PSN of its own choice: zero, one,
\* 2^24 (only bit 24 set) and 2^31 - 1, the largest word the checker's
\* integers hold.
ForeignPeer ==
    { [x EXCEPT !.foreign = {1}] :
        x \in Config({"server_100"}, {ChanCap}, {1},
                     { <<0, 0, 0, 0>>, <<1, 0, 0, 0>>, <<0, 0, 0, 1>>,
                       <<255, 255, 255, 127>> },
                     {0}, [c \in Conn |-> 0], {}, {FALSE}) }

\* Two connections without faults; the peer of the first is foreign and
\* issues one command.
CrossWriter ==
    { [x EXCEPT !.foreign = {1}] :
        x \in Config({"server_100"}, {ChanCap}, {1, 2}, { <<1, 0, 0, 0>> }, {0},
                     [c \in Conn |-> IF c = 1 THEN 1 ELSE 0], {}, {FALSE}) }

\* One connection to a server whose entropy sources may fail.
WeakEntropy ==
    { [x EXCEPT !.rng = { <<TRUE, TRUE, 4>>, <<FALSE, TRUE, 4>>,
                          <<FALSE, TRUE, 2>>, <<FALSE, TRUE, -1>>,
                          <<FALSE, FALSE, 0>> }] :
        x \in Config({"server_100"}, {ChanCap}, {1}, Draws, {0},
                     [c \in Conn |-> 0], {}, {FALSE}) }

\* One connection, with faults, whose client issues one command more than
\* MaxMsgs.
SecondCommand ==
    Config({"server_100"}, {ChanCap}, {1}, { <<18, 239, 205, 171>> }, {0},
           [c \in Conn |-> IF c = 1 THEN MaxMsgs + 1 ELSE 0], {1}, {FALSE})

\* One connection whose client is run_rdma_client_test with no message to
\* send, to either thread-per-connection server.
PerfClient ==
    { [x EXCEPT !.perf = {1}] :
        x \in Config({"server_100", "server"}, 0..ChanCap, {1}, Draws, {0},
                     [c \in Conn |-> 0], {}, {FALSE}) }

InitPeer ==
    InitWith(ForeignPeer \cup CrossWriter \cup WeakEntropy \cup SecondCommand
                \cup PerfClient \cup OneConn \cup ScalableOnly)

SpecPeer == InitPeer /\ [][Next]_vars

\* C31: the receive PSN of every QP that has reached RTR is a valid PSN, not
\* zero and below 2^24, whatever four octets the peer wrote in the PSN
\* exchange.
C31_RqPsnValid ==
    \A c \in Conn : \A r \in Sides(c) :
        r.qp.state \in {"RTR", "RTS"} => r.qp.rq_psn \in 1..(16777216 - 1)


\* ------------------------------------------------------------------ C32
\* The entries of the slot table that hold a record.
Occupied == { i \in Slots : clients[i] # NULL }

\* C32: between critical sections num_clients is the number of occupied
\* entries of clients[], and in the scalable server free_slot_count plus
\* active_connections is max_clients; so a counter below the maximum means
\* the admission scan finds a free entry, and every record admitted has a
\* client id in 1..MAX_CLIENTS.
C32_CounterMatchesTable ==
    /\ cfg.variant # "scalable" =>
            /\ num_clients = Cardinality(Occupied)
            /\ ~TableFull => FirstFree(clients) # 0
            /\ \A c \in Conn :
                    sv[c].pc # "none" => sv[c].client_id \in 1..MAX_CLIENTS
    /\ cfg.variant = "scalable" =>
            sc.free_slot_count + sc.active_connections = sc.max_clients

\* The last slot is held while a lower one has been given back.
C32_Witness ==
    /\ num_clients = MAX_CLIENTS - 1
    /\ clients[MAX_CLIENTS] # NULL
    /\ sv[clients[MAX_CLIENTS]].client_id = MAX_CLIENTS
    /\ \E c \in Conn : ctls[c] = "closed" /\ stls[c] = "closed"
                        /\ sv[c].pc = "none" /\ SlotOf(clients, c) = 0


\* ------------------------------------------------------------------ C33
\* This step takes connection c out of the slot table.
SlotFreed(c) == SlotOf(clients, c) # 0 /\ SlotOf(clients', c) = 0

\* C33: a slot is given back only when its holder's memory regions, queue
\* pair, completion queues, buffers and TLS channel have been released: the
\* step that clears a table entry leaves no object of the record in
\* existence and the TLS connection closed, and in the scalable server no
\* accepted socket is open beyond those of the slots in use.
C33_ReleasedBeforeFree ==
    [][/\ \A c \in Conn :
            SlotFreed(c) => /\ Live(CleanupReleases(sv[c])) \subseteq {"ctx"}
                            /\ stls'[c] = "closed"
       /\ sc'.open_socks <= sc'.active_connections]_vars


\* ------------------------------------------------------------------ C34
\* C34: no step of a connection handler or of handle_new_client releases a
\* process-wide resource: the set of resources held changes only in a step
\* of main (cleanup_server), and where the device context is the server's
\* shared one no handler ever leaves it closed.
C34_SharedNotReleasedByHandlers ==
    [][/\ mpc' = mpc => shared' = shared
       /\ cfg.variant # "server" =>
            \A c \in Conn : sv'[c].ctx \in {"null", "shared"}]_vars

\* A handler has come to its cleanup label from the failure of a CQ or of
\* the QP, with the shared resources all held.
C34_Witness ==
    \E c \in Conn :
        /\ cfg.variant = "server_100"
        /\ sv[c].pc = "cleanup" /\ sv[c].rc = -1
        /\ sv[c].pd = "stale" /\ sv[c].ctx = "shared"
        /\ shared = SharedOf(cfg.variant)


\* ------------------------------------------------------------------ C35
\* This step completes a remote write of connection c.
WriteStep(c) ==
    /\ cl[c].swr # <<>>
    /\ Head(cl[c].swr)[1] = "write"
    /\ cl'[c].swr # cl[c].swr

\* C35: a remote write of a connection changes no receive buffer but that
\* of its own connection, and the key and address this repository's client
\* puts into the work request are those of the descriptor the server sent
\* on the connection.
C35_WritesOwnBufferOnly ==
    [][\A c \in Conn :
        WriteStep(c) =>
            /\ \A t \in Conn \ {c} : sv'[t].recv_buffer = sv[t].recv_buffer
            /\ c \notin cfg.foreign =>
                    /\ cl[c].remote_params.rkey = MrRkey("s", c)
                    /\ cl[c].remote_params.remote_addr = BufAddr("s", c)]_vars

\* A foreign peer's write that named the region of another connection, live
\* at the time, has completed in error.
C35_Witness ==
    \E c \in cfg.foreign : \E t \in Conn \ {c} :
        /\ sv[t].recv_mr = "live"
        /\ cl[c].send_cq # <<>> /\ Head(cl[c].send_cq) = "REM_ACCESS_ERR"
        /\ sv[c].recv_mr = "live"


\* ------------------------------------------------------------------ C36
\* Chunks of the buffer pool that are handed out.
InFlight == NumChunks - sc.buffer_pool.free_count

\* C36: in the scalable server the chunks in flight are never more than the
\* slots in use, which are never more than max_clients, against a pool of
\* twice max_clients chunks; so whenever a slot can be given out pool_alloc
\* succeeds.
C36_PoolNeverExhausted ==
    (cfg.variant = "scalable" /\ sc.max_clients = MAX_CLIENTS) =>
        /\ InFlight <= sc.active_connections
        /\ sc.active_connections <= sc.max_clients
        /\ sc.free_slot_count > 0 => pool_alloc(sc.buffer_pool).id >= 0

\* Every slot is in use, each with a chunk, and half of the pool is free.
C36_Witness ==
    /\ cfg.variant = "scalable"
    /\ sc.free_slot_count = 0
    /\ sc.active_connections = sc.max_clients
    /\ InFlight = MAX_CLIENTS


\* ------------------------------------------------------------------ C37
\* C37: a PSN that no entropy source produced in full (RAND_bytes failed
\* and /dev/urandom gave fewer than four octets) is never sent to the peer,
\* and one from the time-seeded generator is sent only with a warning in
\* the log.
C37_EntropyFailureReported ==
    \A c \in Conn :
        /\ sv[c].psn_src = "unset" => ~Logged(sv[c].log, "psn_w")
        /\ sv[c].psn_src = "rand" =>
                (~Logged(sv[c].log, "psn_w") \/ Logged(sv[c].log, "warn"))


\* ------------------------------------------------------------------ C38
\* C38: on every QP of the server and of the client the receive work
\* requests posted and not completed are at most max_recv_wr, and at most
\* one send work request is outstanding.
C38_WorkRequestBounds ==
    \A c \in Conn : \A r \in Sides(c) :
        /\ r.posted \in 0..MAX_RECV_WR
        /\ Len(r.swr) <= 1


\* ------------------------------------------------------------------ C39
\* C39: in the scalable server's loop an event of a client's socket is
\* never taken for a new-connection event of the listening socket.
C39_ClientEventNotAccepted ==
    sc.event.from = "client" => sc.event.taken_as = "client"


\* ------------------------------------------------------------------ C40
\* The client of connection c has read the server's endpoint descriptor
\* before it wrote its own.
ReadBeforeWrite(c) ==
    \E i, j \in DOMAIN cl[c].log :
        i < j /\ cl[c].log[i] = "ep_r" /\ cl[c].log[j] = "ep_w"

\* C40: once the performance-test client has brought its QP to RTR, it has
\* read the server's endpoint descriptor before writing its own, its rq_psn
\* is the server's local PSN and its dest_qp_num the server's QP number.
C40_PerfClientSameProtocol ==
    \A c \in cfg.perf :
        (cl[c].qp.state \in {"RTR", "RTS"} /\ sv[c].pc # "none") =>
            /\ ReadBeforeWrite(c)
            /\ cl[c].qp.rq_psn = sv[c].local_psn
            /\ cl[c].qp.dest_qp_num = QpNum("s", c)

====
